---- MODULE Spec2Model ----
(***************************************************************************)
(* A model of bigview, a terminal viewer for large text files.             *)
(*                                                                         *)
(*   file_reader.rs   the line index over the mapped bytes, get_line and   *)
(*                    search_with_progress                                 *)
(*   text_utils.rs    character-indexed substrings                         *)
(*   selection.rs     the anchor/cursor selection and its text             *)
(*   viewer.rs        the Viewer: viewport, search state, selection,       *)
(*                    context menu, progress overlay, background search    *)
(*   event_handler.rs the dispatch of key and mouse events                 *)
(*   main.rs          run_viewer, the host loop                            *)
(*                                                                         *)
(* Text is a sequence of bytes (numbers 0..255); a str is a byte sequence  *)
(* that is valid UTF-8.  Offsets and line numbers are 0-based as in the    *)
(* source; At(s, i) reads a 0-based position of a TLA+ sequence.           *)
(***************************************************************************)
EXTENDS Integers, Sequences, FiniteSets, TLC

(***************************************************************************)
(* Bounds of the model.                                                    *)
(***************************************************************************)
\* Longest search buffer the typed, pasted or backspaced input may build.
MaxTerm == 1
\* Search workers that may be left running, detached, at the same time.
MaxDetached == 1
\* Longest byte input and needle of the pure search specification.
MaxBytes == 4
MaxNeedle == 2
\* The longest file of the navigation scenario, in lines.
NavMaxLines == 8
\* The longest file of the match scenario, in lines.
MatchMaxLines == 5
\* The largest file indexed, in bytes, and the longest file searched, in
\* lines, of the progress scenario.
ProgressMaxBytes == 45
ProgressMaxLines == 25
\* The last line and the last column a selection of the selection scenario
\* may touch.
MaxSelLine == 2
MaxSelCol == 5
\* The last column an end of a selection of the text scenario may have.
MaxTextCol == 2
\* The longest file, in lines, and the last screen row of a mouse event of
\* the mapping scenario.
MapMaxLines == 4
MapMaxRow == 4
\* The lines of the file of the clearing scenario.
ClearLines == 5
\* The lines of the file of the failure scenario and of the larger file of
\* the termination scenario.
FailLines == 5
LiveLines == 3
\* The longest line, in characters, and the longest list of highlight
\* ranges of the span scenario.
MaxLineChars == 3
MaxRanges == 2

\* The highlight scenario: the characters of the term.
MaxTermChars == 2

\* The typed-ahead scenario: the events that may wait in the terminal's
\* queue.
MaxPending == 1

(***************************************************************************)
(* Generic helpers.                                                        *)
(***************************************************************************)
None == [some |-> FALSE]
Some(x) == [some |-> TRUE, val |-> x]

At(s, i) == s[i + 1]

\* usize::saturating_sub
SatSub(a, b) == IF a > b THEN a - b ELSE 0

Min(a, b) == IF a < b THEN a ELSE b

\* s[from..to) with 0-based bounds, as a Rust slice
Slice(s, from, to) == SubSeq(s, from + 1, to)

RECURSIVE Concat(_)
Concat(ss) == IF ss = <<>> THEN <<>> ELSE Head(ss) \o Concat(Tail(ss))

\* All sequences over S of length at most n
SeqsUpTo(S, n) == UNION {[1..k -> S] : k \in 0..n}

(***************************************************************************)
(* UTF-8 (std::str::from_utf8, str::chars).                                *)
(***************************************************************************)
IsCont(b) == b >= 128 /\ b <= 191

\* Length of the well-formed UTF-8 sequence at the head of bytes, 0 if none.
Utf8SeqLen(bytes) ==
    LET n == Len(bytes)
        b == bytes[1]
    IN  IF n = 0 THEN 0
        ELSE IF b < 128 THEN 1
        ELSE IF b >= 194 /\ b <= 223
            THEN IF n >= 2 /\ IsCont(bytes[2]) THEN 2 ELSE 0
        ELSE IF b >= 224 /\ b <= 239
            THEN IF /\ n >= 3
                    /\ IsCont(bytes[2])
                    /\ IsCont(bytes[3])
                    /\ (b = 224 => bytes[2] >= 160)
                    /\ (b = 237 => bytes[2] <= 159)
                 THEN 3 ELSE 0
        ELSE IF b >= 240 /\ b <= 244
            THEN IF /\ n >= 4
                    /\ IsCont(bytes[2])
                    /\ IsCont(bytes[3])
                    /\ IsCont(bytes[4])
                    /\ (b = 240 => bytes[2] >= 144)
                    /\ (b = 244 => bytes[2] <= 143)
                 THEN 4 ELSE 0
        ELSE 0

RECURSIVE Utf8Valid(_)
Utf8Valid(bytes) ==
    IF bytes = <<>> THEN TRUE
    ELSE LET k == Utf8SeqLen(bytes)
         IN  k > 0 /\ Utf8Valid(SubSeq(bytes, k + 1, Len(bytes)))

\* str::chars().collect(): the characters of a str, each as its bytes.
RECURSIVE Chars(_)
Chars(text) ==
    IF text = <<>> THEN <<>>
    ELSE LET k == Utf8SeqLen(text)
         IN  <<SubSeq(text, 1, k)>> \o Chars(SubSeq(text, k + 1, Len(text)))

(***************************************************************************)
(* text_utils.rs                                                           *)
(***************************************************************************)
char_len(text) == Len(Chars(text))

\* A faulty substring that takes start and end as byte offsets.
safe_substring_bytes(text, start, end) ==
    LET safe_start == Min(start, Len(text))
        safe_end == Min(end, Len(text))
    IN  IF safe_start >= safe_end THEN <<>> ELSE Slice(text, safe_start, safe_end)

safe_substring(text, start, end) ==
    LET chars == Chars(text)
        n == Len(chars)
        safe_start == Min(start, n)
        safe_end == Min(end, n)
    IN  IF safe_start >= safe_end THEN <<>>
        ELSE Concat(Slice(chars, safe_start, safe_end))

\* sort_by(|a, b| a.0.cmp(&b.0)), a stable sort: r is put after the ranges
\* that start where it starts or before.
InsertRange(sorted, r) ==
    LET k == Cardinality({i \in 1..Len(sorted) : sorted[i][1] <= r[1]})
    IN  SubSeq(sorted, 1, k) \o <<r>> \o SubSeq(sorted, k + 1, Len(sorted))

RECURSIVE SortRanges(_, _)
SortRanges(sorted, rest) ==
    IF rest = <<>> THEN sorted
    ELSE SortRanges(InsertRange(sorted, Head(rest)), Tail(rest))

sorted_ranges(ranges) == SortRanges(<<>>, ranges)

\* The ranges clamped to the line, those left empty dropped.
RECURSIVE style_map(_, _)
style_map(ranges, char_length) ==
    IF ranges = <<>> THEN <<>>
    ELSE LET safe_start == Min(Head(ranges)[1], char_length)
             safe_end == Min(Head(ranges)[2], char_length)
         IN  (IF safe_start < safe_end
              THEN <<(<<safe_start, safe_end, Head(ranges)[3]>>)>>
              ELSE <<>>)
                \o style_map(Tail(ranges), char_length)

\* A faulty list of events that ends every range one position early.
RECURSIVE StartEndEventsEarly(_)
StartEndEventsEarly(map) ==
    IF map = <<>> THEN <<>>
    ELSE <<[pos |-> Head(map)[1], is_start |-> TRUE, style |-> Head(map)[3]],
           [pos |-> Head(map)[2] - 1, is_start |-> FALSE, style |-> Head(map)[3]]>>
            \o StartEndEventsEarly(Tail(map))

\* The start event and the end event of every range of the style map.
RECURSIVE StartEndEvents(_)
StartEndEvents(map) ==
    IF map = <<>> THEN <<>>
    ELSE <<[pos |-> Head(map)[1], is_start |-> TRUE, style |-> Head(map)[3]],
           [pos |-> Head(map)[2], is_start |-> FALSE, style |-> Head(map)[3]]>>
            \o StartEndEvents(Tail(map))

\* The order of the events: by position, an end before a start at the same
\* position.
EventRank(e) == 2 * e.pos + (IF e.is_start THEN 1 ELSE 0)

InsertEvent(sorted, e) ==
    LET k == Cardinality({i \in 1..Len(sorted) : EventRank(sorted[i]) <= EventRank(e)})
    IN  SubSeq(sorted, 1, k) \o <<e>> \o SubSeq(sorted, k + 1, Len(sorted))

RECURSIVE SortEvents(_, _)
SortEvents(sorted, rest) ==
    IF rest = <<>> THEN sorted
    ELSE SortEvents(InsertEvent(sorted, Head(rest)), Tail(rest))

events(map) == SortEvents(<<>>, StartEndEvents(map))

\* active_styles.retain(|&s| s != style)
RECURSIVE Retain(_, _)
Retain(active_styles, style) ==
    IF active_styles = <<>> THEN <<>>
    ELSE (IF Head(active_styles) # style THEN <<Head(active_styles)>> ELSE <<>>)
            \o Retain(Tail(active_styles), style)

\* The loop over the events: the segments pushed, the active styles and the
\* last position after the events evs.
RECURSIVE EventLoop(_, _)
EventLoop(st, evs) ==
    IF evs = <<>> THEN st
    ELSE LET e == Head(evs)
             current_style ==
                 IF st.active_styles = <<>> THEN None
                 ELSE Some(st.active_styles[Len(st.active_styles)])
         IN  EventLoop(
                 [segments |-> IF e.pos > st.last_pos
                               THEN Append(st.segments, <<st.last_pos, e.pos, current_style>>)
                               ELSE st.segments,
                  active_styles |-> IF e.is_start THEN Append(st.active_styles, e.style)
                                    ELSE Retain(st.active_styles, e.style),
                  last_pos |-> e.pos],
                 Tail(evs))

\* A faulty end of the loop that leaves the rest of the line out.
final_segment_dropped(last_pos, char_length) == <<>>

\* The segment added after the loop.
final_segment(last_pos, char_length) ==
    IF last_pos < char_length THEN <<(<<last_pos, char_length, None>>)>> ELSE <<>>

\* The segments (start, end, style) of a line of char_length characters
\* under a list of ranges (start, end, style) that is not empty.
segments(char_length, ranges) ==
    LET st == EventLoop([segments |-> <<>>, active_styles |-> <<>>, last_pos |-> 0],
                        events(style_map(sorted_ranges(ranges), char_length)))
    IN  st.segments \o final_segment(st.last_pos, char_length)

\* Span::raw and Span::styled
Span(content, style) == [content |-> content, style |-> style]

RECURSIVE SegmentSpans(_, _)
SegmentSpans(chars, segs) ==
    IF segs = <<>> THEN <<>>
    ELSE (IF Head(segs)[1] < Head(segs)[2]
          THEN <<Span(Concat(Slice(chars, Head(segs)[1], Head(segs)[2])), Head(segs)[3])>>
          ELSE <<>>)
            \o SegmentSpans(chars, Tail(segs))

split_line_into_spans(line, ranges) ==
    IF ranges = <<>> THEN <<Span(line, None)>>
    ELSE SegmentSpans(Chars(line), segments(char_len(line), ranges))

(***************************************************************************)
(* file_reader.rs                                                          *)
(***************************************************************************)
\* FileReader::new_empty: the reader of an empty file.
new_empty == [mmap |-> <<>>, lines |-> <<0>>]

\* A faulty iteration that records the offset of the line feed itself.
IndexByteAtSeparator(mmap, lines, pos) ==
    IF At(mmap, pos) = 10 THEN Append(lines, pos) ELSE lines

\* One iteration of the indexing loop of new_with_progress: the line starts
\* after the byte at pos has been looked at.
IndexByte(mmap, lines, pos) ==
    IF At(mmap, pos) = 10 THEN Append(lines, pos + 1) ELSE lines

RECURSIVE IndexFrom(_, _, _)
IndexFrom(mmap, lines, pos) ==
    IF pos >= Len(mmap) THEN lines
    ELSE IndexFrom(mmap, IndexByte(mmap, lines, pos), pos + 1)

\* new_with_progress(path, None): the whole index on the calling thread.
new_with_progress(bytes) == [mmap |-> bytes, lines |-> IndexFrom(bytes, <<0>>, 0)]

line_count(fr) == Len(fr.lines)

get_line(fr, line_num) ==
    IF line_num >= Len(fr.lines) THEN None
    ELSE LET start == At(fr.lines, line_num)
             end == IF line_num + 1 < Len(fr.lines)
                    THEN SatSub(At(fr.lines, line_num + 1), 1)
                    ELSE Len(fr.mmap)
         IN  IF start > end \/ start >= Len(fr.mmap) THEN None
             ELSE LET line_bytes == Slice(fr.mmap, start, end)
                  IN  IF Utf8Valid(line_bytes) THEN Some(line_bytes) ELSE None

\* The loop of get_lines from line i to line end - 1: it ends at the first
\* line that get_line does not give.
RECURSIVE LinesFrom(_, _, _)
LinesFrom(fr, i, end) ==
    IF i >= end THEN <<>>
    ELSE LET line == get_line(fr, i)
         IN  IF line.some THEN <<line.val>> \o LinesFrom(fr, i + 1, end) ELSE <<>>

get_lines(fr, start, count) == LinesFrom(fr, start, start + count)

\* str::contains: the first offset at which the needle's bytes occur, if any.
RECURSIVE ContainsFrom(_, _, _)
ContainsFrom(line, needle, i) ==
    IF i + Len(needle) > Len(line) THEN FALSE
    ELSE IF Slice(line, i, i + Len(needle)) = needle THEN TRUE
    ELSE ContainsFrom(line, needle, i + 1)

\* A faulty test that looks for the needle at the start of the line only.
StartsWith(line, needle) ==
    Len(needle) <= Len(line) /\ SubSeq(line, 1, Len(needle)) = needle

Contains(line, needle) == ContainsFrom(line, needle, 0)

\* One iteration of the scan loop of search_with_progress: the match list
\* after line line_num has been looked at.
ScanLine(fr, needle, matches, line_num) ==
    LET line == get_line(fr, line_num)
    IN  IF line.some /\ Contains(line.val, needle)
        THEN Append(matches, line_num)
        ELSE matches

\* total_lines / 20
\* A faulty interval of 2.5% of the lines.
ProgressIntervalFine(fr) == line_count(fr) \div 40

ProgressInterval(fr) == line_count(fr) \div 20

RECURSIVE ScanFrom(_, _, _, _)
ScanFrom(fr, needle, matches, line_num) ==
    IF line_num >= line_count(fr) THEN matches
    ELSE ScanFrom(fr, needle, ScanLine(fr, needle, matches, line_num), line_num + 1)

\* search_with_progress(needle, None): the whole scan on the calling thread.
search_with_progress(fr, needle) == ScanFrom(fr, needle, <<>>, 0)

(***************************************************************************)
(* selection.rs                                                            *)
(***************************************************************************)
\* Selection::new
new_selection(line, col) ==
    [start_line |-> line, start_col |-> col, end_line |-> line, end_col |-> col]

update_end(sel, line, col) == [sel EXCEPT !.end_line = line, !.end_col = col]

is_empty(sel) == sel.start_line = sel.end_line /\ sel.start_col = sel.end_col

\* A faulty normalize that orders the two ends by their lines only.
normalize_by_line(sel) ==
    IF sel.start_line <= sel.end_line
    THEN <<sel.start_line, sel.start_col, sel.end_line, sel.end_col>>
    ELSE <<sel.end_line, sel.end_col, sel.start_line, sel.start_col>>

\* (start_line, start_col, end_line, end_col), start first
normalize(sel) ==
    IF \/ sel.start_line < sel.end_line
       \/ (sel.start_line = sel.end_line /\ sel.start_col <= sel.end_col)
    THEN <<sel.start_line, sel.start_col, sel.end_line, sel.end_col>>
    ELSE <<sel.end_line, sel.end_col, sel.start_line, sel.start_col>>

contains_line(sel, line) ==
    LET n == normalize(sel) IN line >= n[1] /\ line <= n[3]

\* The multi-line loop of get_text, from line_num to end_line.
RECURSIVE TextFrom(_, _, _)
TextFrom(fr, n, line_num) ==
    IF line_num > n[3] THEN <<>>
    ELSE LET line == get_line(fr, line_num)
             piece ==
                 IF ~line.some THEN <<>>
                 ELSE (IF line_num = n[1]
                          THEN safe_substring(line.val, n[2], char_len(line.val))
                       ELSE IF line_num = n[3]
                          THEN safe_substring(line.val, 0, n[4])
                       ELSE line.val)
                      \o (IF line_num # n[3] THEN <<10>> ELSE <<>>)
         IN  piece \o TextFrom(fr, n, line_num + 1)

get_text(sel, fr) ==
    LET n == normalize(sel)
        result ==
            IF n[1] = n[3]
            THEN LET line == get_line(fr, n[1])
                 IN  IF line.some THEN safe_substring(line.val, n[2], n[4]) ELSE <<>>
            ELSE TextFrom(fr, n, n[1])
    IN  IF result = <<>> THEN None ELSE Some(result)

\* copy_to_clipboard: the clipboard's content after the call.  The content
\* is set to the selection's text if there is any and the clipboard can be
\* opened; an error is returned otherwise and the caller drops it.
copy_to_clipboard(sel, fr, clipboard, available) ==
    LET text == get_text(sel, fr)
    IN  IF text.some /\ available THEN text ELSE clipboard

(***************************************************************************)
(* constants.rs                                                            *)
(***************************************************************************)
LINE_NUMBER_WIDTH == 7
CONTEXT_MENU_WIDTH == 10
SCROLL_LINES_PER_WHEEL == 3
PROGRESS_BAR_HEIGHT == 3
DEFAULT_VIEWPORT_HEIGHT == 20

(***************************************************************************)
(* viewer.rs: the Viewer, a record of the struct's fields.  Every          *)
(* operation takes the Viewer (and the FileReader it owns, which never     *)
(* changes) and gives the Viewer after the call.                           *)
(***************************************************************************)
\* Viewer::new
new_viewer ==
    [ current_line     |-> 0,
      search_matches   |-> <<>>,
      current_match    |-> 0,
      in_search_mode   |-> FALSE,
      viewport_height  |-> DEFAULT_VIEWPORT_HEIGHT,
      selection        |-> None,
      selecting        |-> FALSE,
      context_menu     |-> None,
      progress_visible |-> FALSE,
      progress_value   |-> [num |-> 0, den |-> 1],
      progress_message |-> "",
      search_requested |-> FALSE,
      search_cancelled |-> FALSE,
      last_search_term |-> <<>>,
      search_textarea  |-> <<>> ]

\* A progress fraction num/den; 0.0 is 0/1 and 1.0 is 1/1.
Fraction(num, den) == [num |-> num, den |-> den]

\* progress >= 1.0
IsComplete(progress) == progress.num >= progress.den

\* The height of the content chunk that draw() stores in viewport_height:
\* the terminal's rows less the status line and, when the progress overlay
\* is visible, the progress bar.
ContentHeight(rows, progress_visible) ==
    IF progress_visible THEN SatSub(rows, PROGRESS_BAR_HEIGHT + 1)
    ELSE SatSub(rows, 1)

draw(v, rows) ==
    [v EXCEPT !.viewport_height = ContentHeight(rows, v.progress_visible)]

request_search(v) ==
    [v EXCEPT !.search_requested = TRUE, !.search_cancelled = FALSE]

\* A faulty clear_search that drops the selection with the search.
clear_search_and_selection(v) ==
    [v EXCEPT !.search_textarea = <<>>,
              !.search_matches = <<>>,
              !.current_match = 0,
              !.search_requested = FALSE,
              !.search_cancelled = FALSE,
              !.last_search_term = <<>>,
              !.selection = None]

clear_search(v) ==
    [v EXCEPT !.search_textarea = <<>>,
              !.search_matches = <<>>,
              !.current_match = 0,
              !.search_requested = FALSE,
              !.search_cancelled = FALSE,
              !.last_search_term = <<>>]

show_progress(v, value, message) ==
    [v EXCEPT !.progress_visible = TRUE,
              !.progress_value = value,
              !.progress_message = message]

hide_progress(v) ==
    [v EXCEPT !.progress_visible = FALSE,
              !.progress_value = Fraction(0, 1),
              !.progress_message = ""]

enter_search_mode(v) ==
    [v EXCEPT !.in_search_mode = TRUE, !.search_textarea = <<>>]

exit_search_mode(v) == [v EXCEPT !.in_search_mode = FALSE]

get_search_term(v) == v.search_textarea

\* The text-entry methods the event handler calls.
add_to_search_term(v, c) == [v EXCEPT !.search_textarea = @ \o c]

add_to_search_term_str(v, s) == [v EXCEPT !.search_textarea = @ \o s]

backspace_search_term(v) ==
    LET chars == Chars(v.search_textarea)
    IN  [v EXCEPT !.search_textarea =
            IF chars = <<>> THEN <<>>
            ELSE Concat(SubSeq(chars, 1, Len(chars) - 1))]

\* A faulty installation that keeps the old current-match index.
InstallResultsKeepingIndex(v, results) ==
    LET v1 == [v EXCEPT !.search_matches = results]
    IN  IF results # <<>>
        THEN [v1 EXCEPT !.current_line = SatSub(results[1], v.viewport_height \div 2)]
        ELSE v1

\* The match list, index and viewport a finished search installs.
InstallResults(v, results) ==
    LET v1 == [v EXCEPT !.search_matches = results, !.current_match = 0]
    IN  IF results # <<>>
        THEN [v1 EXCEPT !.current_line = SatSub(results[1], v.viewport_height \div 2)]
        ELSE v1

perform_search_with_progress(v, fr) ==
    LET search_term == get_search_term(v)
    IN  IF search_term = <<>> THEN [v EXCEPT !.search_matches = <<>>]
        ELSE LET v1 == show_progress(v, Fraction(0, 1), "Searching... (ESC to cancel)")
                 v2 == [v1 EXCEPT !.last_search_term = search_term]
                 v3 == InstallResults(v2, search_with_progress(fr, search_term))
             IN  hide_progress(v3)

\* A faulty next_match that does not wrap around at the end of the list.
next_match_unwrapped(v) ==
    IF v.search_matches = <<>> THEN v
    ELSE LET m == v.current_match + 1
             target_line == IF m < Len(v.search_matches) THEN At(v.search_matches, m) ELSE 0
         IN  [v EXCEPT !.current_match = m,
                       !.current_line = SatSub(target_line, v.viewport_height \div 2)]

next_match(v) ==
    IF v.search_matches = <<>> THEN v
    ELSE LET m == (v.current_match + 1) % Len(v.search_matches)
             target_line == At(v.search_matches, m)
         IN  [v EXCEPT !.current_match = m,
                       !.current_line = SatSub(target_line, v.viewport_height \div 2)]

\* A faulty prev_match that stops at the first match instead of wrapping.
prev_match_saturating(v) ==
    IF v.search_matches = <<>> THEN v
    ELSE LET m == SatSub(v.current_match, 1)
             target_line == At(v.search_matches, m)
         IN  [v EXCEPT !.current_match = m,
                       !.current_line = SatSub(target_line, v.viewport_height \div 2)]

prev_match(v) ==
    IF v.search_matches = <<>> THEN v
    ELSE LET m == IF v.current_match = 0 THEN Len(v.search_matches) - 1
                  ELSE v.current_match - 1
             target_line == At(v.search_matches, m)
         IN  [v EXCEPT !.current_match = m,
                       !.current_line = SatSub(target_line, v.viewport_height \div 2)]

scroll_up(v) == [v EXCEPT !.current_line = SatSub(@, 1)]

\* A faulty scroll_down that does not stop at the last full page.
scroll_down_unclamped(v, fr) == [v EXCEPT !.current_line = @ + 1]

scroll_down(v, fr) ==
    LET max_line == SatSub(line_count(fr), v.viewport_height)
    IN  IF v.current_line < max_line THEN [v EXCEPT !.current_line = @ + 1] ELSE v

RECURSIVE scroll_up_multiple(_, _)
scroll_up_multiple(v, count) ==
    IF count = 0 THEN v ELSE scroll_up_multiple(scroll_up(v), count - 1)

RECURSIVE scroll_down_multiple(_, _, _)
scroll_down_multiple(v, fr, count) ==
    IF count = 0 THEN v ELSE scroll_down_multiple(scroll_down(v, fr), fr, count - 1)

page_up(v) == [v EXCEPT !.current_line = SatSub(@, v.viewport_height)]

page_down(v, fr) ==
    LET max_line == SatSub(line_count(fr), v.viewport_height)
    IN  [v EXCEPT !.current_line = Min(@ + v.viewport_height, max_line)]

goto_start(v) == [v EXCEPT !.current_line = 0]

goto_end(v, fr) ==
    LET total_lines == line_count(fr)
    IN  IF total_lines <= v.viewport_height THEN [v EXCEPT !.current_line = 0]
        ELSE [v EXCEPT !.current_line = total_lines - v.viewport_height]

\* A faulty mapping that does not look at the line count.
screen_to_text_coords_past_end(v, fr, col, row) ==
    IF row = 0 \/ col < LINE_NUMBER_WIDTH THEN None
    ELSE LET text_row == row - 1
             text_col == col - LINE_NUMBER_WIDTH
             line_num == v.current_line + text_row
         IN  IF text_row >= v.viewport_height THEN None
             ELSE Some(<<line_num, text_col>>)

screen_to_text_coords(v, fr, col, row) ==
    IF row = 0 \/ col < LINE_NUMBER_WIDTH THEN None
    ELSE LET text_row == row - 1
             text_col == col - LINE_NUMBER_WIDTH
             line_num == v.current_line + text_row
         IN  IF text_row >= v.viewport_height THEN None
             ELSE IF line_num >= line_count(fr) THEN None
             ELSE Some(<<line_num, text_col>>)

start_selection(v, fr, col, row) ==
    LET v1 == [v EXCEPT !.context_menu = None]
        at == screen_to_text_coords(v, fr, col, row)
    IN  IF at.some
        THEN [v1 EXCEPT !.selection = Some(new_selection(at.val[1], at.val[2])),
                        !.selecting = TRUE]
        ELSE v1

update_selection(v, fr, col, row) ==
    LET at == screen_to_text_coords(v, fr, col, row)
    IN  IF v.selecting /\ at.some /\ v.selection.some
        THEN [v EXCEPT !.selection = Some(update_end(v.selection.val, at.val[1], at.val[2]))]
        ELSE v

end_selection(v) ==
    LET v1 == [v EXCEPT !.selecting = FALSE]
    IN  IF v.selection.some /\ is_empty(v.selection.val)
        THEN [v1 EXCEPT !.selection = None]
        ELSE v1

\* ContextMenu::new(col, row); the items are always Copy and Search.
new_context_menu(col, row) == [x |-> col, y |-> row]

MenuItems == 2

\* A faulty show_context_menu that opens the menu without a selection.
show_context_menu_always(v, col, row) ==
    [v EXCEPT !.context_menu = Some(new_context_menu(col, row))]

show_context_menu(v, col, row) ==
    IF v.selection.some THEN [v EXCEPT !.context_menu = Some(new_context_menu(col, row))]
    ELSE v

close_context_menu(v) == [v EXCEPT !.context_menu = None]

is_mouse_in_menu(v, col, row) ==
    IF v.context_menu.some
    THEN LET menu == v.context_menu.val
         IN  /\ col >= menu.x
             /\ col < menu.x + CONTEXT_MENU_WIDTH
             /\ row >= menu.y
             /\ row < menu.y + MenuItems
    ELSE FALSE

\* The clipboard is outside the Viewer: copying changes nothing in it.
copy_selection(v, fr) == v

search_selection(v, fr) ==
    IF v.selection.some
    THEN LET text == get_text(v.selection.val, fr)
         IN  IF text.some /\ ~(\E i \in 1..Len(text.val) : text.val[i] = 10)
             THEN request_search([v EXCEPT !.search_textarea = text.val])
             ELSE v
    ELSE v

handle_menu_click(v, fr, col, row) ==
    LET v1 == IF v.context_menu.some
              THEN LET item_index == row - v.context_menu.val.y
                   IN  IF item_index = 0 THEN copy_selection(v, fr)
                       ELSE IF item_index = 1 THEN search_selection(v, fr)
                       ELSE v
              ELSE v
    IN  [v1 EXCEPT !.context_menu = None]

\* What handle_menu_click does to the clipboard, which is outside the
\* Viewer: item 0 copies the selection.
handle_menu_click_clipboard(v, fr, row, clipboard, available) ==
    IF v.context_menu.some /\ row - v.context_menu.val.y = 0 /\ v.selection.some
    THEN copy_to_clipboard(v.selection.val, fr, clipboard, available)
    ELSE clipboard

\* draw_context_menu: the area of the screen the open menu is drawn on, moved
\* left and up when the menu would pass the edge of the screen.
menu_area(menu, screen_width, screen_height) ==
    [x |-> IF menu.x + CONTEXT_MENU_WIDTH > screen_width
           THEN SatSub(screen_width, CONTEXT_MENU_WIDTH) ELSE menu.x,
     y |-> IF menu.y + MenuItems > screen_height
           THEN SatSub(screen_height, MenuItems) ELSE menu.y,
     width |-> CONTEXT_MENU_WIDTH,
     height |-> MenuItems]

\* str::match_indices: the byte offsets of the occurrences of needle in line
\* from offset i on, each found after the end of the one before.
RECURSIVE MatchIndices(_, _, _)
MatchIndices(line, needle, i) ==
    IF i + Len(needle) > Len(line) THEN <<>>
    ELSE IF Slice(line, i, i + Len(needle)) = needle
        THEN <<i>> \o MatchIndices(line, needle, i + Len(needle))
    ELSE MatchIndices(line, needle, i + 1)

\* The ranges of the occurrences at the offsets starts, the first of them in
\* the style of the current match if the line is the current match.
RECURSIVE MatchRanges(_, _, _, _)
MatchRanges(starts, part, is_current_match, match_count) ==
    IF starts = <<>> THEN <<>>
    ELSE <<(<<Head(starts), Head(starts) + char_len(part),
              IF is_current_match /\ match_count = 0 THEN "current_match"
              ELSE "other_match">>)>>
            \o MatchRanges(Tail(starts), part, is_current_match, match_count + 1)

\* The ranges create_line_spans collects for a line: the selection first,
\* then the occurrences of the search term.
LineRanges(v, line, line_num) ==
    LET selected ==
            IF v.selection.some /\ contains_line(v.selection.val, line_num)
            THEN LET n == normalize(v.selection.val)
                     sel_start == IF line_num = n[1] THEN n[2] ELSE 0
                     sel_end == IF line_num = n[3] THEN n[4] ELSE char_len(line)
                 IN  <<(<<sel_start, sel_end, "selection">>)>>
            ELSE <<>>
        search_term == get_search_term(v)
        found ==
            IF search_term # <<>> /\ Contains(line, search_term)
            THEN LET is_current_match ==
                         /\ v.search_matches # <<>>
                         /\ At(v.search_matches, v.current_match) = line_num
                 IN  MatchRanges(MatchIndices(line, search_term, 0), search_term,
                                 is_current_match, 0)
            ELSE <<>>
    IN  selected \o found

create_line_spans(v, line, line_num) ==
    LET ranges == LineRanges(v, line, line_num)
    IN  IF ranges = <<>> THEN <<Span(line, None)>>
        ELSE split_line_into_spans(line, ranges)

(***************************************************************************)
(* event_handler.rs: events and their dispatch.  handle_event gives the    *)
(* Viewer after the event and the ViewerAction returned to the host loop.  *)
(***************************************************************************)
\* A key event; ch is the character of KeyCode::Char, clip the clipboard's
\* content at that moment (None: no clipboard or no text in it).
KeyEvent(code, ch, ctrl, clip) ==
    [type |-> "Key", code |-> code, ch |-> ch, ctrl |-> ctrl, clip |-> clip,
     col |-> 0, row |-> 0]

MouseEvent(kind, col, row) ==
    [type |-> "Mouse", code |-> kind, ch |-> <<>>, ctrl |-> FALSE, clip |-> None,
     col |-> col, row |-> row]

Result(v, action) == [viewer |-> v, action |-> action]

HasLineBreak(s) == \E i \in 1..Len(s) : s[i] = 10 \/ s[i] = 13

paste_clipboard_to_search(v, clip) ==
    IF clip.some /\ ~HasLineBreak(clip.val)
    THEN add_to_search_term_str(v, clip.val)
    ELSE v

handle_search_key(v, key) ==
    IF key.code = "Esc" THEN Result(exit_search_mode(v), "None")
    ELSE IF key.code = "Enter" THEN Result(exit_search_mode(request_search(v)), "None")
    ELSE IF key.code = "Backspace" THEN Result(backspace_search_term(v), "None")
    ELSE IF key.code = "Char" /\ key.ch = <<118>> /\ key.ctrl
        THEN Result(paste_clipboard_to_search(v, key.clip), "None")
    ELSE IF key.code = "Char" THEN Result(add_to_search_term(v, key.ch), "None")
    ELSE Result(v, "None")

handle_normal_key(v, fr, key) ==
    IF key.code = "Char" /\ key.ch = <<113>> THEN Result(v, "Quit")
    ELSE IF key.code = "Char" /\ key.ch = <<99>> /\ key.ctrl THEN Result(v, "Quit")
    ELSE IF key.code = "Esc" THEN Result(clear_search(v), "None")
    ELSE IF key.code = "Char" /\ key.ch = <<47>> THEN Result(enter_search_mode(v), "None")
    ELSE IF key.code = "Char" /\ key.ch = <<110>> THEN Result(next_match(v), "None")
    ELSE IF key.code = "Char" /\ key.ch = <<78>> THEN Result(prev_match(v), "None")
    ELSE IF key.code = "Up" THEN Result(scroll_up(v), "None")
    ELSE IF key.code = "Down" THEN Result(scroll_down(v, fr), "None")
    ELSE IF key.code = "PageUp" THEN Result(page_up(v), "None")
    ELSE IF key.code = "PageDown" THEN Result(page_down(v, fr), "None")
    ELSE IF key.code = "Home" THEN Result(goto_start(v), "None")
    ELSE IF key.code = "End" THEN Result(goto_end(v, fr), "None")
    ELSE Result(v, "None")

handle_context_menu_key(v, key) ==
    IF key.code = "Esc" THEN Result(close_context_menu(v), "None")
    ELSE Result(v, "None")

handle_key_event(v, fr, key) ==
    IF v.in_search_mode THEN handle_search_key(v, key)
    ELSE IF v.context_menu.some THEN handle_context_menu_key(v, key)
    ELSE handle_normal_key(v, fr, key)

handle_normal_mouse(v, fr, mouse) ==
    IF mouse.code = "ScrollUp"
        THEN Result(scroll_up_multiple(v, SCROLL_LINES_PER_WHEEL), "None")
    ELSE IF mouse.code = "ScrollDown"
        THEN Result(scroll_down_multiple(v, fr, SCROLL_LINES_PER_WHEEL), "None")
    ELSE IF mouse.code = "DownLeft"
        THEN Result(start_selection(v, fr, mouse.col, mouse.row), "None")
    ELSE IF mouse.code = "DragLeft"
        THEN Result(update_selection(v, fr, mouse.col, mouse.row), "None")
    ELSE IF mouse.code = "UpLeft" THEN Result(end_selection(v), "None")
    ELSE IF mouse.code = "DownRight"
        THEN Result(show_context_menu(v, mouse.col, mouse.row), "None")
    ELSE Result(v, "None")

handle_context_menu_mouse(v, fr, mouse) ==
    IF mouse.code = "DownLeft"
    THEN IF is_mouse_in_menu(v, mouse.col, mouse.row)
         THEN Result(handle_menu_click(v, fr, mouse.col, mouse.row), "None")
         ELSE Result(close_context_menu(v), "None")
    ELSE Result(v, "None")

handle_mouse_event(v, fr, mouse) ==
    IF v.context_menu.some THEN handle_context_menu_mouse(v, fr, mouse)
    ELSE handle_normal_mouse(v, fr, mouse)

handle_event(v, fr, event) ==
    IF event.type = "Key" THEN handle_key_event(v, fr, event)
    ELSE IF event.type = "Mouse" THEN handle_mouse_event(v, fr, event)
    ELSE Result(v, "None")

(***************************************************************************)
(* The search worker: the closure run by the thread that                   *)
(* perform_search_with_ui_progress spawns.  It owns a search context over  *)
(* the same index and runs search_with_progress with a callback that sends *)
(* (progress, message) on the channel; pc is its position in that          *)
(* function: before the first callback, in the scan loop, before the last  *)
(* callback, returned.                                                     *)
(***************************************************************************)
\* FileReader::create_search_context: the index as the worker reads it.
create_search_context(fr) == fr

\* thread::spawn(..): the worker's locals at its start.
spawn_search(needle) ==
    [needle |-> needle, line_num |-> 0, last_progress_line |-> 0,
     matches |-> <<>>, pc |-> "start"]

Message(progress, text) == [progress |-> progress, message |-> text]

\* One step of search_with_progress on context ctx with a progress callback:
\* the worker after the step and the messages the callback sent in it.
WorkerStep(w, ctx) ==
    LET total_lines == line_count(ctx)
    IN  IF w.pc = "start"
        THEN [w |-> [w EXCEPT !.pc = IF total_lines = 0 THEN "final" ELSE "scan"],
              sent |-> <<Message(Fraction(0, 1), "Searching...")>>]
        ELSE IF w.pc = "scan"
        THEN LET report == w.line_num > w.last_progress_line + ProgressInterval(ctx)
             IN  [w |-> [w EXCEPT
                        !.matches = ScanLine(ctx, w.needle, @, w.line_num),
                        !.last_progress_line = IF report THEN w.line_num ELSE @,
                        !.line_num = @ + 1,
                        !.pc = IF w.line_num + 1 >= total_lines THEN "final" ELSE "scan"],
                  sent |-> IF report
                           THEN <<Message(Fraction(w.line_num, total_lines), "Searching...")>>
                           ELSE <<>>]
        ELSE [w |-> [w EXCEPT !.pc = "done"],
              sent |-> <<Message(Fraction(1, 1), "Search complete")>>]

(***************************************************************************)
(* The loading worker: the closure run by the thread that                  *)
(* load_file_with_progress spawns for a large file.  It runs               *)
(* new_with_progress with a callback that sends on the channel.            *)
(***************************************************************************)
spawn_loading(bytes) ==
    [mmap |-> bytes, lines |-> <<0>>, pos |-> 0, last_progress_pos |-> 0, pc |-> "start"]

LoaderStep(l) ==
    LET total_bytes == Len(l.mmap)
        progress_interval == total_bytes \div 20
    IN  IF l.pc = "start"
        THEN [l |-> [l EXCEPT !.pc = IF total_bytes = 0 THEN "final" ELSE "scan"],
              sent |-> <<Message(Fraction(0, 1), "Indexing file...")>>]
        ELSE IF l.pc = "scan"
        THEN LET report == l.pos > l.last_progress_pos + progress_interval
             IN  [l |-> [l EXCEPT
                        !.lines = IndexByte(l.mmap, @, l.pos),
                        !.last_progress_pos = IF report THEN l.pos ELSE @,
                        !.pos = @ + 1,
                        !.pc = IF l.pos + 1 >= total_bytes THEN "final" ELSE "scan"],
                  sent |-> IF report
                           THEN <<Message(Fraction(l.pos, total_bytes), "Indexing file...")>>
                           ELSE <<>>]
        ELSE [l |-> [l EXCEPT !.pc = "done"],
              sent |-> <<Message(Fraction(1, 1), "File indexing complete")>>]

(***************************************************************************)
(* The inputs of the model.                                                *)
(***************************************************************************)
\* The files opened: one below the line count that makes a search run in
\* the background, one above it.
\*   SmallFile  "qc"
\*   LargeFile  "q" "qc"
SmallFile == <<113, 99>>
LargeFile == <<113, 10, 113, 99>>
Files == {SmallFile, LargeFile}

\* The rows of the terminal.
TerminalRows == 4

\* The columns of the terminal.
TerminalCols == 80

\* The line count above which a search runs on a worker thread: 100_000 in
\* the source, scaled to the files of the model.
BackgroundThreshold == 1

\* The file size in bytes above which the file is indexed on a worker
\* thread: 10 * 1024 * 1024 in the source, scaled to the files of the model.
LoadingThreshold == 2

\* Screen positions of mouse events: column 6 is inside the line-number
\* margin, row 0 is the border, (7, 1) is the first character of the first
\* visible line.
DownCols == {6, 7}
DownRows == {0, 1}
DragCols == {7, 8}
DragRows == {1}
MenuCols == {7}
MenuRows == {0, 1}

\* What the clipboard may hold when Ctrl+V is pressed.
Clipboards == {None, Some(<<113>>), Some(<<113, 10>>)}

NormalKeys ==
    {KeyEvent(code, <<>>, FALSE, None) :
        code \in {"Esc", "Enter", "Backspace", "Up", "Down", "PageUp", "PageDown",
                  "Home", "End"}}
    \cup {KeyEvent("Char", ch, FALSE, None) :
            ch \in {<<113>>, <<47>>, <<110>>, <<78>>}}
    \cup {KeyEvent("Char", <<99>>, TRUE, None)}

\* The keys pressed during search entry.
SearchKeys ==
    {KeyEvent(code, <<>>, FALSE, None) : code \in {"Esc", "Enter", "Backspace", "Up"}}
    \cup {KeyEvent("Char", <<113>>, FALSE, None)}
    \cup {KeyEvent("Char", <<118>>, TRUE, clip) : clip \in Clipboards}

MouseEvents ==
    {MouseEvent(kind, 0, 0) : kind \in {"ScrollUp", "ScrollDown", "UpLeft"}}
    \cup {MouseEvent("DownLeft", col, row) : col \in DownCols, row \in DownRows}
    \cup {MouseEvent("DragLeft", col, row) : col \in DragCols, row \in DragRows}
    \cup {MouseEvent("DownRight", col, row) : col \in MenuCols, row \in MenuRows}

\* 'q' and Ctrl+C
QuitKeys == {KeyEvent("Char", <<113>>, FALSE, None), KeyEvent("Char", <<99>>, TRUE, None)}

\* The keys and wheel events that move the viewport.
NavEvents ==
    {KeyEvent(code, <<>>, FALSE, None) :
        code \in {"Up", "Down", "PageUp", "PageDown", "Home", "End"}}
    \cup {MouseEvent(kind, 0, 0) : kind \in {"ScrollUp", "ScrollDown"}}

\* The files of the navigation scenario: n lines "q", for n up to NavMaxLines,
\* on terminals of NavRows rows.
RECURSIVE NavFile(_)
NavFile(n) == IF n <= 1 THEN <<113>> ELSE <<113, 10>> \o NavFile(n - 1)

NavRows == {2, 3, 4, 5}

\* The files of the match scenario: up to MatchMaxLines lines, each "q" or
\* "c", on terminals of MatchRows rows; the keys that search and step
\* through the matches.
RECURSIVE JoinLines(_)
JoinLines(ls) ==
    IF Len(ls) = 0 THEN <<>>
    ELSE IF Len(ls) = 1 THEN ls[1]
    ELSE ls[1] \o <<10>> \o JoinLines(Tail(ls))

MatchFiles ==
    {JoinLines(ls) : ls \in SeqsUpTo({<<113>>, <<99>>}, MatchMaxLines) \ {<<>>}}

MatchRows == {4, 6}

MatchEvents ==
    {KeyEvent("Enter", <<>>, FALSE, None)}
    \cup {KeyEvent("Char", ch, FALSE, None) : ch \in {<<47>>, <<113>>, <<110>>, <<78>>}}

\* The bytes of the files and needles searched directly: line feed, 'a', and
\* the two bytes of U+00E9, which are valid UTF-8 only together.
ByteAlphabet == {10, 97, 195, 169}

Needles == {needle \in SeqsUpTo(ByteAlphabet, MaxNeedle) : Utf8Valid(needle)}

(***************************************************************************)
(* The state.                                                              *)
(***************************************************************************)
VARIABLES
    viewer,         \* the Viewer
    file_reader,    \* the FileReader the Viewer owns: mmap and lines
    rows,           \* the rows of the terminal
    pc,             \* the controlling thread's position in run_viewer
    search_thread,  \* the JoinHandle held by the polling loop: the worker
    progress_rx,    \* the messages sent on the progress channel, unread
    detached,       \* workers whose handle was dropped while they ran
    loading_thread, \* the JoinHandle of the loading worker
    call            \* a direct call of search_with_progress, for SpecSearch

vars == <<viewer, file_reader, rows, pc, search_thread, progress_rx, detached,
          loading_thread, call>>

NoCall == spawn_search(<<>>)

\* load_file_with_progress: a small file is indexed at once and the viewer
\* made for it; for a large file the loading worker is spawned and a viewer
\* without a file shows the progress.
Init ==
    /\ \E bytes \in Files :
          IF Len(bytes) > LoadingThreshold
          THEN /\ loading_thread = Some(spawn_loading(bytes))
               /\ file_reader = new_empty
               /\ viewer = show_progress(new_viewer, Fraction(0, 1), "Loading file...")
               /\ pc = "loading"
          ELSE /\ loading_thread = None
               /\ file_reader = new_with_progress(bytes)
               /\ viewer = new_viewer
               /\ pc = "top"
    /\ rows = TerminalRows
    /\ search_thread = None
    /\ progress_rx = <<>>
    /\ detached = <<>>
    /\ call = NoCall

(***************************************************************************)
(* main.rs, load_file_with_progress: the loop that shows the loading       *)
(* progress, and the join that makes the real viewer.                      *)
(***************************************************************************)
LoadingWorker ==
    /\ loading_thread.some
    /\ loading_thread.val.pc # "done"
    /\ LET r == LoaderStep(loading_thread.val)
       IN  /\ loading_thread' = Some(r.l)
           /\ progress_rx' = progress_rx \o r.sent
    /\ UNCHANGED <<viewer, file_reader, rows, pc, search_thread, detached, call>>

LoadingProgress ==
    /\ pc = "loading"
    /\ progress_rx # <<>>
    /\ \E elapsed \in BOOLEAN :
          LET msg == Head(progress_rx)
              v1 == show_progress(viewer, msg.progress, msg.message)
              v2 == IF elapsed THEN draw(v1, rows) ELSE v1
          IN  IF IsComplete(msg.progress)
              THEN viewer' = draw(v2, rows) /\ pc' = "loaded"
              ELSE viewer' = v2 /\ pc' = "loading"
    /\ progress_rx' = Tail(progress_rx)
    /\ UNCHANGED <<file_reader, rows, search_thread, detached, loading_thread, call>>

\* loading_thread.join(), then Viewer::new(file_reader) and run_viewer.
LoadingJoin ==
    /\ pc = "loaded"
    /\ loading_thread.val.pc = "done"
    /\ file_reader' = [mmap |-> loading_thread.val.mmap, lines |-> loading_thread.val.lines]
    /\ viewer' = new_viewer
    /\ loading_thread' = None
    /\ progress_rx' = <<>>
    /\ pc' = "top"
    /\ UNCHANGED <<rows, search_thread, detached, call>>

(***************************************************************************)
(* main.rs, run_viewer: the top of the loop draws, then runs a requested   *)
(* search, then polls for one event.                                       *)
(***************************************************************************)
\* A faulty loop that polls for an event before it looks for a requested
\* search.
ContinuePolling(v) ==
    /\ viewer' = draw(v, rows)
    /\ pc' = "poll"

\* The loop comes round: draw, then either run the requested search or poll.
Continue(v) ==
    /\ viewer' = draw(v, rows)
    /\ pc' = IF v.search_requested THEN "search" ELSE "poll"

\* The first iteration.
LoopStart ==
    /\ pc = "top"
    /\ Continue(viewer)
    /\ UNCHANGED <<file_reader, rows, search_thread, progress_rx, detached, loading_thread, call>>

\* perform_search_with_ui_progress with an empty term.
SearchEmptyTerm ==
    /\ pc = "search"
    /\ get_search_term(viewer) = <<>>
    /\ viewer' = [viewer EXCEPT !.search_matches = <<>>, !.search_requested = FALSE]
    /\ pc' = "poll"
    /\ UNCHANGED <<file_reader, rows, search_thread, progress_rx, detached, loading_thread, call>>

\* perform_search_with_ui_progress on a small file: the search runs here.
SearchDirect ==
    /\ pc = "search"
    /\ get_search_term(viewer) # <<>>
    /\ ~(line_count(file_reader) > BackgroundThreshold)
    /\ viewer' = [perform_search_with_progress(viewer, file_reader)
                     EXCEPT !.search_requested = FALSE]
    /\ pc' = "poll"
    /\ UNCHANGED <<file_reader, rows, search_thread, progress_rx, detached, loading_thread, call>>

\* perform_search_with_ui_progress on a large file: spawn the worker, show
\* the overlay and enter the polling loop.
SearchSpawn ==
    /\ pc = "search"
    /\ get_search_term(viewer) # <<>>
    /\ line_count(file_reader) > BackgroundThreshold
    /\ search_thread' = Some(spawn_search(get_search_term(viewer)))
    /\ progress_rx' = <<>>
    /\ viewer' = show_progress(viewer, Fraction(0, 1), "Searching...")
    /\ pc' = "searching"
    /\ UNCHANGED <<file_reader, rows, detached, loading_thread, call>>

\* poll(100 ms) times out.
PollTimeout ==
    /\ pc = "poll"
    /\ Continue(viewer)
    /\ UNCHANGED <<file_reader, rows, search_thread, progress_rx, detached, loading_thread, call>>

\* The events that may be read in the state: the keys of the mode and the
\* mouse; a character is typed or pasted only into a buffer shorter than
\* MaxTerm.
Offered ==
    LET keys == IF viewer.in_search_mode THEN SearchKeys ELSE NormalKeys
    IN  {event \in keys \cup MouseEvents :
            (viewer.in_search_mode /\ event.code = "Char")
                => Len(viewer.search_textarea) < MaxTerm}

\* An event is read and handled; Quit leaves the loop.
HandleEvent(event) ==
    /\ pc = "poll"
    /\ event \in Offered
    /\ LET r == handle_event(viewer, file_reader, event)
       IN  IF r.action = "Quit" THEN viewer' = r.viewer /\ pc' = "exited"
           ELSE Continue(r.viewer)
    /\ UNCHANGED <<file_reader, rows, search_thread, progress_rx, detached, loading_thread, call>>

(***************************************************************************)
(* viewer.rs, the polling loop of perform_search_with_ui_progress.         *)
(***************************************************************************)
\* A worker whose handle and channel are dropped: nothing it computes is
\* read again and its sends fail, so only its position in the scan is kept,
\* with the line it had reached when it was left behind.
Detach(w) == [line_num |-> w.line_num, cancelled_at |-> w.line_num]

\* A faulty cancellation that also throws the previous results away.
cancel_search_dropping_results(v) ==
    [hide_progress([v EXCEPT !.search_cancelled = TRUE, !.in_search_mode = TRUE,
                             !.search_matches = <<>>, !.current_match = 0])
        EXCEPT !.search_requested = FALSE]

\* What the Esc branch of the polling loop does to the Viewer before it
\* returns.
cancel_search(v) ==
    [hide_progress([v EXCEPT !.search_cancelled = TRUE, !.in_search_mode = TRUE])
        EXCEPT !.search_requested = FALSE]

\* Esc is read: the search is cancelled.  The function returns, which drops
\* the receiver and the JoinHandle; a worker still running runs on.
CancelSearch ==
    /\ pc = "searching"
    /\ Len(detached) < MaxDetached
    /\ viewer' = cancel_search(viewer)
    /\ detached' = IF search_thread.val.pc \in {"done", "panicked"} THEN detached
                   ELSE Append(detached, Detach(search_thread.val))
    /\ search_thread' = None
    /\ progress_rx' = <<>>
    /\ pc' = "poll"
    /\ UNCHANGED <<file_reader, rows, loading_thread, call>>

\* try_recv gives a message: the overlay is updated, the screen redrawn if
\* 200 ms have passed, and on the last message redrawn and the loop left.
ReceiveProgress ==
    /\ pc = "searching"
    /\ progress_rx # <<>>
    /\ \E elapsed \in BOOLEAN :
          LET msg == Head(progress_rx)
              v1 == show_progress(viewer, msg.progress, msg.message)
              v2 == IF elapsed THEN draw(v1, rows) ELSE v1
          IN  IF IsComplete(msg.progress)
              THEN viewer' = draw(v2, rows) /\ pc' = "joining"
              ELSE viewer' = v2 /\ pc' = "searching"
    /\ progress_rx' = Tail(progress_rx)
    /\ UNCHANGED <<file_reader, rows, search_thread, detached, loading_thread, call>>

\* search_thread.join() returns the worker's result, which is installed.
JoinSearch ==
    /\ pc = "joining"
    /\ search_thread.val.pc = "done"
    /\ LET w == search_thread.val
           v1 == InstallResults([viewer EXCEPT !.last_search_term = w.needle], w.matches)
       IN  viewer' = [hide_progress(v1) EXCEPT !.search_requested = FALSE]
    /\ search_thread' = None
    /\ progress_rx' = <<>>
    /\ pc' = "poll"
    /\ UNCHANGED <<file_reader, rows, detached, loading_thread, call>>

\* A faulty Disconnected arm that stays in the loop.
DisconnectedIgnored ==
    /\ pc = "searching"
    /\ progress_rx = <<>>
    /\ search_thread.val.pc \in {"done", "panicked"}
    /\ UNCHANGED <<viewer, file_reader, rows, pc, search_thread, progress_rx, detached,
                   loading_thread, call>>

\* try_recv gives Disconnected: the channel is empty and the worker has
\* dropped the sender, by returning or by panicking; the loop is left.
Disconnected ==
    /\ pc = "searching"
    /\ progress_rx = <<>>
    /\ search_thread.val.pc \in {"done", "panicked"}
    /\ pc' = "joining"
    /\ UNCHANGED <<viewer, file_reader, rows, search_thread, progress_rx, detached,
                   loading_thread, call>>

\* A faulty Err arm that throws the installed results away.
search_failed_dropping_results(v) ==
    [hide_progress([v EXCEPT !.search_matches = <<>>, !.current_match = 0])
        EXCEPT !.search_requested = FALSE]

\* The Err arm of the join.
search_failed(v) == [hide_progress(v) EXCEPT !.search_requested = FALSE]

\* search_thread.join() returns Err: the worker panicked.  The function
\* returns Err to run_viewer.
JoinFailed ==
    /\ pc = "joining"
    /\ search_thread.val.pc = "panicked"
    /\ viewer' = search_failed(viewer)
    /\ search_thread' = None
    /\ progress_rx' = <<>>
    /\ pc' = "failed"
    /\ UNCHANGED <<file_reader, rows, detached, loading_thread, call>>

\* run_viewer prints the error and goes on to poll for an event.
ReportError ==
    /\ pc = "failed"
    /\ pc' = "poll"
    /\ UNCHANGED <<viewer, file_reader, rows, search_thread, progress_rx, detached,
                   loading_thread, call>>

(***************************************************************************)
(* The worker threads.                                                     *)
(***************************************************************************)
\* The worker the polling loop waits for panics: the thread ends without a
\* result and its sender is dropped; what it has sent stays in the channel.
WorkerPanic ==
    /\ search_thread.some
    /\ search_thread.val.pc \in {"start", "scan", "final"}
    /\ search_thread' = Some([search_thread.val EXCEPT !.pc = "panicked"])
    /\ UNCHANGED <<viewer, file_reader, rows, pc, progress_rx, detached, loading_thread, call>>

\* The worker the polling loop waits for takes a step.
\* A faulty worker that writes the matches it has found into the Viewer.
SearchWorkerInstalling ==
    /\ search_thread.some
    /\ search_thread.val.pc \in {"start", "scan", "final"}
    /\ LET r == WorkerStep(search_thread.val, create_search_context(file_reader))
       IN  /\ search_thread' = Some(r.w)
           /\ progress_rx' = progress_rx \o r.sent
           /\ viewer' = [viewer EXCEPT !.search_matches = r.w.matches]
    /\ UNCHANGED <<file_reader, rows, pc, detached, loading_thread, call>>

SearchWorker ==
    /\ search_thread.some
    /\ search_thread.val.pc \in {"start", "scan", "final"}
    /\ LET r == WorkerStep(search_thread.val, create_search_context(file_reader))
       IN  /\ search_thread' = Some(r.w)
           /\ progress_rx' = progress_rx \o r.sent
    /\ UNCHANGED <<viewer, file_reader, rows, pc, detached, loading_thread, call>>

RemoveAt(s, i) == SubSeq(s, 1, i - 1) \o SubSeq(s, i + 1, Len(s))

\* The detached worker at position i after its next step: it scans one
\* line; when no line is left it returns and the thread ends.
DetachedStep(i) ==
    LET d == detached[i]
    IN  IF d.line_num < line_count(create_search_context(file_reader))
        THEN [detached EXCEPT ![i].line_num = d.line_num + 1]
        ELSE RemoveAt(detached, i)

DetachedWorker ==
    /\ pc # "exited"
    /\ \E i \in 1..Len(detached) : detached' = DetachedStep(i)
    /\ UNCHANGED <<viewer, file_reader, rows, pc, search_thread, progress_rx, loading_thread, call>>

Next ==
    \/ LoadingWorker
    \/ LoadingProgress
    \/ LoadingJoin
    \/ LoopStart
    \/ SearchEmptyTerm
    \/ SearchDirect
    \/ SearchSpawn
    \/ PollTimeout
    \/ \E event \in Offered : HandleEvent(event)
    \/ CancelSearch
    \/ ReceiveProgress
    \/ JoinSearch
    \/ SearchWorker
    \/ DetachedWorker

Spec == Init /\ [][Next]_vars

(***************************************************************************)
(* The navigation scenario: files longer than the viewport, on terminals   *)
(* of several heights, and the keys and wheel events that move the         *)
(* viewport, through the same host loop.                                   *)
(***************************************************************************)
InitNav ==
    /\ file_reader \in {new_with_progress(NavFile(n)) : n \in 1..NavMaxLines}
    /\ rows \in NavRows
    /\ viewer = new_viewer
    /\ pc = "top"
    /\ loading_thread = None
    /\ search_thread = None
    /\ progress_rx = <<>>
    /\ detached = <<>>
    /\ call = NoCall

Navigate == \E event \in NavEvents : HandleEvent(event)

NextNav == LoopStart \/ PollTimeout \/ Navigate

SpecNav == InitNav /\ [][NextNav]_vars

(***************************************************************************)
(* The match scenario: files whose matches lie anywhere, the first one     *)
(* too; a term is typed and committed, the search runs (directly or on a   *)
(* worker, never cancelled) and n and N step through the matches.          *)
(***************************************************************************)
InitMatch ==
    /\ file_reader \in {new_with_progress(bytes) : bytes \in MatchFiles}
    /\ rows \in MatchRows
    /\ viewer = new_viewer
    /\ pc = "top"
    /\ loading_thread = None
    /\ search_thread = None
    /\ progress_rx = <<>>
    /\ detached = <<>>
    /\ call = NoCall

MatchKey == \E event \in MatchEvents : HandleEvent(event)

NextMatch ==
    \/ LoopStart
    \/ PollTimeout
    \/ MatchKey
    \/ SearchEmptyTerm
    \/ SearchDirect
    \/ SearchSpawn
    \/ ReceiveProgress
    \/ JoinSearch
    \/ SearchWorker

SpecMatch == InitMatch /\ [][NextMatch]_vars

(***************************************************************************)
(* The clearing scenario: a file of ClearLines lines "q", longer than the  *)
(* viewport; a term is typed and searched on a worker, n steps through the *)
(* matches, text is selected with the mouse and Esc is pressed, in search  *)
(* entry and in normal mode.                                               *)
(***************************************************************************)
ClearEvents ==
    {KeyEvent(code, <<>>, FALSE, None) : code \in {"Esc", "Enter"}}
    \cup {KeyEvent("Char", ch, FALSE, None) : ch \in {<<47>>, <<113>>, <<110>>}}
    \cup {MouseEvent("DownLeft", LINE_NUMBER_WIDTH, 1),
          MouseEvent("DragLeft", LINE_NUMBER_WIDTH + 1, 1),
          MouseEvent("UpLeft", 0, 0)}

InitClear ==
    /\ file_reader = new_with_progress(NavFile(ClearLines))
    /\ rows = TerminalRows
    /\ viewer = new_viewer
    /\ pc = "top"
    /\ loading_thread = None
    /\ search_thread = None
    /\ progress_rx = <<>>
    /\ detached = <<>>
    /\ call = NoCall

ClearKey ==
    /\ pc = "poll"
    /\ \E event \in ClearEvents :
          /\ (viewer.in_search_mode /\ event.code = "Char")
                => Len(viewer.search_textarea) < MaxTerm
          /\ LET r == handle_event(viewer, file_reader, event)
             IN  IF r.action = "Quit" THEN viewer' = r.viewer /\ pc' = "exited"
                 ELSE Continue(r.viewer)
    /\ UNCHANGED <<file_reader, rows, search_thread, progress_rx, detached, loading_thread, call>>

NextClear ==
    \/ LoopStart
    \/ PollTimeout
    \/ ClearKey
    \/ SearchEmptyTerm
    \/ SearchSpawn
    \/ ReceiveProgress
    \/ JoinSearch
    \/ SearchWorker

SpecClear == InitClear /\ [][NextClear]_vars

(***************************************************************************)
(* The menu scenario: a file of three lines "q"; text of one line or of    *)
(* two is selected, the menu opened on a text row and on the last row of   *)
(* the screen, the left button pressed on the menu and beside it, Esc      *)
(* pressed and search entry begun; a search the menu requests runs on a    *)
(* worker.                                                                 *)
(***************************************************************************)
MenuEvents ==
    {KeyEvent("Esc", <<>>, FALSE, None), KeyEvent("Char", <<47>>, FALSE, None)}
    \cup {MouseEvent("DownLeft", col, row) :
            col \in {LINE_NUMBER_WIDTH - 1, LINE_NUMBER_WIDTH}, row \in 1..(TerminalRows - 1)}
    \cup {MouseEvent("DragLeft", LINE_NUMBER_WIDTH + 1, row) : row \in {1, 2}}
    \cup {MouseEvent("UpLeft", 0, 0)}
    \cup {MouseEvent("DownRight", LINE_NUMBER_WIDTH, row) : row \in {1, TerminalRows - 1}}

InitMenu ==
    /\ file_reader = new_with_progress(NavFile(3))
    /\ rows = TerminalRows
    /\ viewer = new_viewer
    /\ pc = "top"
    /\ loading_thread = None
    /\ search_thread = None
    /\ progress_rx = <<>>
    /\ detached = <<>>
    /\ call = NoCall

MenuEvent ==
    /\ pc = "poll"
    /\ \E event \in MenuEvents :
          /\ (viewer.in_search_mode /\ event.code = "Char")
                => Len(viewer.search_textarea) < MaxTerm
          /\ Continue(handle_event(viewer, file_reader, event).viewer)
    /\ UNCHANGED <<file_reader, rows, search_thread, progress_rx, detached, loading_thread, call>>

NextMenu ==
    \/ LoopStart
    \/ PollTimeout
    \/ MenuEvent
    \/ SearchSpawn
    \/ ReceiveProgress
    \/ JoinSearch
    \/ SearchWorker

SpecMenu == InitMenu /\ [][NextMenu]_vars

(***************************************************************************)
(* The failure scenario: a file of FailLines lines "q", searched on a      *)
(* worker that may panic at any step; n steps through the matches of an    *)
(* earlier search and text is selected before the search that fails.       *)
(***************************************************************************)
FailEvents ==
    {KeyEvent("Enter", <<>>, FALSE, None)}
    \cup {KeyEvent("Char", ch, FALSE, None) : ch \in {<<47>>, <<113>>, <<110>>}}
    \cup {MouseEvent("DownLeft", LINE_NUMBER_WIDTH, 1),
          MouseEvent("DragLeft", LINE_NUMBER_WIDTH + 1, 1)}

InitFail ==
    /\ file_reader = new_with_progress(NavFile(FailLines))
    /\ rows = TerminalRows
    /\ viewer = new_viewer
    /\ pc = "top"
    /\ loading_thread = None
    /\ search_thread = None
    /\ progress_rx = <<>>
    /\ detached = <<>>
    /\ call = NoCall

FailKey ==
    /\ pc = "poll"
    /\ \E event \in FailEvents :
          /\ (viewer.in_search_mode /\ event.code = "Char")
                => Len(viewer.search_textarea) < MaxTerm
          /\ LET r == handle_event(viewer, file_reader, event)
             IN  IF r.action = "Quit" THEN viewer' = r.viewer /\ pc' = "exited"
                 ELSE Continue(r.viewer)
    /\ UNCHANGED <<file_reader, rows, search_thread, progress_rx, detached, loading_thread, call>>

NextFail ==
    \/ LoopStart
    \/ PollTimeout
    \/ FailKey
    \/ SearchEmptyTerm
    \/ SearchSpawn
    \/ ReceiveProgress
    \/ Disconnected
    \/ JoinSearch
    \/ JoinFailed
    \/ ReportError
    \/ SearchWorker
    \/ WorkerPanic

SpecFail == InitFail /\ [][NextFail]_vars

(***************************************************************************)
(* The termination scenario: a file of one line, searched directly, or of  *)
(* LiveLines lines, searched on a worker that may panic; a term is typed   *)
(* and committed again and again, and a search may be cancelled.  The      *)
(* controlling thread and the worker the polling loop waits for are        *)
(* running threads: each takes the step it can take.  Nothing is assumed   *)
(* of the user, of a panic or of a worker left behind.                     *)
(***************************************************************************)
LiveEvents ==
    {KeyEvent("Enter", <<>>, FALSE, None), KeyEvent("Char", <<47>>, FALSE, None)}

InitLive ==
    /\ file_reader \in {new_with_progress(NavFile(n)) : n \in {1, LiveLines}}
    /\ rows = TerminalRows
    /\ viewer = new_viewer
    /\ pc = "top"
    /\ loading_thread = None
    /\ search_thread = None
    /\ progress_rx = <<>>
    /\ detached = <<>>
    /\ call = NoCall

LiveKey ==
    /\ pc = "poll"
    /\ \E event \in LiveEvents :
          /\ (viewer.in_search_mode /\ event.code = "Char")
                => Len(viewer.search_textarea) < MaxTerm
          /\ Continue(handle_event(viewer, file_reader, event).viewer)
    /\ UNCHANGED <<file_reader, rows, search_thread, progress_rx, detached, loading_thread, call>>

NextLive ==
    \/ LoopStart
    \/ PollTimeout
    \/ LiveKey
    \/ SearchEmptyTerm
    \/ SearchDirect
    \/ SearchSpawn
    \/ CancelSearch
    \/ ReceiveProgress
    \/ Disconnected
    \/ JoinSearch
    \/ JoinFailed
    \/ ReportError
    \/ SearchWorker
    \/ WorkerPanic
    \/ DetachedWorker

Scheduling ==
    /\ WF_vars(LoopStart)
    /\ WF_vars(SearchEmptyTerm)
    /\ WF_vars(SearchDirect)
    /\ WF_vars(SearchSpawn)
    /\ WF_vars(ReceiveProgress)
    /\ WF_vars(Disconnected)
    /\ WF_vars(JoinSearch)
    /\ WF_vars(JoinFailed)
    /\ WF_vars(ReportError)
    /\ WF_vars(SearchWorker)

SpecLive == InitLive /\ [][NextLive]_vars /\ Scheduling

(***************************************************************************)
(* search_with_progress called directly, without a callback, on the        *)
(* reader of any file of at most MaxBytes bytes with any needle of at most *)
(* MaxNeedle bytes.                                                        *)
(***************************************************************************)
InitSearch ==
    /\ file_reader \in {new_with_progress(bytes) : bytes \in SeqsUpTo(ByteAlphabet, MaxBytes)}
    /\ call \in {spawn_search(needle) : needle \in Needles}
    /\ viewer = new_viewer
    /\ rows = TerminalRows
    /\ pc = "call"
    /\ loading_thread = None
    /\ search_thread = None
    /\ progress_rx = <<>>
    /\ detached = <<>>

\* One step of the call: the same steps as the worker's, with no callback
\* to send to.
SearchCall ==
    /\ pc = "call"
    /\ call.pc # "done"
    /\ call' = WorkerStep(call, file_reader).w
    /\ UNCHANGED <<viewer, file_reader, rows, pc, search_thread, progress_rx, detached,
                   loading_thread>>

NextSearch == SearchCall

SpecSearch == InitSearch /\ [][NextSearch]_vars

(***************************************************************************)
(* The index scenario: new_with_progress run step by step on any file of   *)
(* at most MaxBytes bytes, then get_line and get_lines called on the built *)
(* reader with any arguments up to one past the line count.                *)
(***************************************************************************)
NoQuery == [op |-> "none", start |-> 0, count |-> 0, result |-> None]

InitIndex ==
    /\ loading_thread \in {Some(spawn_loading(bytes)) : bytes \in SeqsUpTo(ByteAlphabet, MaxBytes)}
    /\ file_reader = new_empty
    /\ viewer = new_viewer
    /\ rows = TerminalRows
    /\ pc = "index"
    /\ search_thread = None
    /\ progress_rx = <<>>
    /\ detached = <<>>
    /\ call = NoQuery

\* new_with_progress returns Ok(FileReader { mmap, lines }).
IndexBuilt ==
    /\ pc = "index"
    /\ loading_thread.val.pc = "done"
    /\ file_reader' = [mmap |-> loading_thread.val.mmap, lines |-> loading_thread.val.lines]
    /\ pc' = "built"
    /\ UNCHANGED <<viewer, rows, search_thread, progress_rx, detached, loading_thread, call>>

GetLine ==
    /\ pc = "built"
    /\ \E line_num \in 0..line_count(file_reader) :
          call' = [op |-> "get_line", start |-> line_num, count |-> 1,
                   result |-> get_line(file_reader, line_num)]
    /\ UNCHANGED <<viewer, file_reader, rows, pc, search_thread, progress_rx, detached,
                   loading_thread>>

GetLines ==
    /\ pc = "built"
    /\ \E start \in 0..line_count(file_reader) : \E count \in 0..(line_count(file_reader) + 1) :
          call' = [op |-> "get_lines", start |-> start, count |-> count,
                   result |-> get_lines(file_reader, start, count)]
    /\ UNCHANGED <<viewer, file_reader, rows, pc, search_thread, progress_rx, detached,
                   loading_thread>>

NextIndex == LoadingWorker \/ IndexBuilt \/ GetLine \/ GetLines

SpecIndex == InitIndex /\ [][NextIndex]_vars

(***************************************************************************)
(* The progress scenario: an index build over a file of any size up to     *)
(* ProgressMaxBytes, or a search over a file of up to ProgressMaxLines     *)
(* lines, each with a progress sink; nothing reads the channel, so         *)
(* progress_rx is the list of all the reports made so far.                 *)
(***************************************************************************)
RECURSIVE FileOfSize(_)
FileOfSize(n) == IF n = 0 THEN <<>> ELSE <<113>> \o FileOfSize(n - 1)

InitProgress ==
    /\ \/ /\ loading_thread \in {Some(spawn_loading(FileOfSize(n))) : n \in 0..ProgressMaxBytes}
          /\ search_thread = None
          /\ file_reader = new_empty
       \/ /\ loading_thread = None
          /\ search_thread = Some(spawn_search(<<113>>))
          /\ file_reader \in {new_with_progress(NavFile(n)) : n \in 1..ProgressMaxLines}
    /\ viewer = new_viewer
    /\ rows = TerminalRows
    /\ pc = "sink"
    /\ progress_rx = <<>>
    /\ detached = <<>>
    /\ call = NoCall

NextProgress == LoadingWorker \/ SearchWorker

SpecProgress == InitProgress /\ [][NextProgress]_vars

(***************************************************************************)
(* The selection scenario: a file of MaxSelLine + 1 lines, all visible;    *)
(* the left button is pressed, dragged and released on any line and any    *)
(* column up to MaxSelCol, through the same host loop.                     *)
(***************************************************************************)
SelectEvents ==
    {MouseEvent(kind, LINE_NUMBER_WIDTH + col, 1 + line) :
        kind \in {"DownLeft", "DragLeft"}, col \in 0..MaxSelCol, line \in 0..MaxSelLine}
    \cup {MouseEvent("UpLeft", 0, 0)}

InitSelect ==
    /\ file_reader = new_with_progress(NavFile(MaxSelLine + 1))
    /\ rows = MaxSelLine + 2
    /\ viewer = new_viewer
    /\ pc = "top"
    /\ loading_thread = None
    /\ search_thread = None
    /\ progress_rx = <<>>
    /\ detached = <<>>
    /\ call = NoCall

MouseSelect ==
    /\ pc = "poll"
    /\ \E event \in SelectEvents : Continue(handle_event(viewer, file_reader, event).viewer)
    /\ UNCHANGED <<file_reader, rows, search_thread, progress_rx, detached, loading_thread, call>>

NextSelect == LoopStart \/ PollTimeout \/ MouseSelect

SpecSelect == InitSelect /\ [][NextSelect]_vars

(***************************************************************************)
(* The text scenario: get_text called on the reader of any file of at most *)
(* MaxBytes bytes, for a selection with its two ends on any lines of the   *)
(* file and any columns up to MaxTextCol, in either order.                 *)
(***************************************************************************)
InitText ==
    /\ file_reader \in {new_with_progress(bytes) : bytes \in SeqsUpTo(ByteAlphabet, MaxBytes)}
    /\ call = NoQuery
    /\ viewer = new_viewer
    /\ rows = TerminalRows
    /\ pc = "text"
    /\ loading_thread = None
    /\ search_thread = None
    /\ progress_rx = <<>>
    /\ detached = <<>>

GetText ==
    /\ pc = "text"
    /\ \E start_line, end_line \in 0..(line_count(file_reader) - 1) :
       \E start_col, end_col \in 0..MaxTextCol :
          LET sel == update_end(new_selection(start_line, start_col), end_line, end_col)
          IN  call' = [op |-> "get_text", start |-> sel, count |-> 1,
                       result |-> get_text(sel, file_reader)]
    /\ UNCHANGED <<viewer, file_reader, rows, pc, search_thread, progress_rx, detached,
                   loading_thread>>

NextText == GetText

SpecText == InitText /\ [][NextText]_vars

(***************************************************************************)
(* The span scenario: split_line_into_spans called on a line of up to      *)
(* MaxLineChars characters, some of them of two bytes, with any list of up *)
(* to MaxRanges ranges in either of two styles; a range may be empty and   *)
(* may end past the end of the line.                                       *)
(***************************************************************************)
\* The first n characters of "a", U+00E9, "a", U+00E9, ...
RECURSIVE LineOfChars(_)
LineOfChars(n) ==
    IF n = 0 THEN <<>>
    ELSE LineOfChars(n - 1) \o (IF n % 2 = 1 THEN <<97>> ELSE <<195, 169>>)

Styles == {"selection", "match"}

HighlightRanges ==
    {<<start, end, style>> : start \in 0..(MaxLineChars + 1), end \in 0..(MaxLineChars + 1),
                             style \in Styles}

\* The line is in start and the ranges in count of the call to be made.
InitSpans ==
    /\ \E n \in 0..MaxLineChars :
       \E ranges \in {rs \in SeqsUpTo(HighlightRanges, MaxRanges) :
                         \A i \in 1..Len(rs) : rs[i][1] <= rs[i][2]} :
          call = [op |-> "none", start |-> LineOfChars(n), count |-> ranges, result |-> <<>>]
    /\ file_reader = new_empty
    /\ viewer = new_viewer
    /\ rows = TerminalRows
    /\ pc = "spans"
    /\ loading_thread = None
    /\ search_thread = None
    /\ progress_rx = <<>>
    /\ detached = <<>>

\* The call: the spans in result.
SplitLine ==
    /\ pc = "spans"
    /\ call.op = "none"
    /\ call' = [call EXCEPT !.op = "split_line_into_spans",
                            !.result = split_line_into_spans(call.start, call.count)]
    /\ UNCHANGED <<viewer, file_reader, rows, pc, search_thread, progress_rx, detached,
                   loading_thread>>

NextSpans == SplitLine

SpecSpans == InitSpans /\ [][NextSpans]_vars

(***************************************************************************)
(* The mapping scenario: files of up to MapMaxLines lines on terminals     *)
(* shorter and taller than the file; the viewport is scrolled, the left    *)
(* button pressed in the margin, on the border, below the viewport, past   *)
(* the last line and on the text, dragged and released, and the menu       *)
(* opened on the last row, through the same host loop.                     *)
(***************************************************************************)
MapCols == {LINE_NUMBER_WIDTH - 1, LINE_NUMBER_WIDTH, LINE_NUMBER_WIDTH + 1}

MapRows == {3, 4}

MapEvents ==
    {KeyEvent(code, <<>>, FALSE, None) : code \in {"Up", "Down"}}
    \cup {MouseEvent("DownLeft", col, row) : col \in MapCols, row \in 0..MapMaxRow}
    \cup {MouseEvent("DragLeft", col, row) : col \in MapCols, row \in {1, 2}}
    \cup {MouseEvent("UpLeft", 0, 0)}
    \cup {MouseEvent("DownRight", LINE_NUMBER_WIDTH, MapMaxRow)}

InitMap ==
    /\ file_reader \in {new_with_progress(NavFile(n)) : n \in 1..MapMaxLines}
    /\ rows \in MapRows
    /\ viewer = new_viewer
    /\ pc = "top"
    /\ loading_thread = None
    /\ search_thread = None
    /\ progress_rx = <<>>
    /\ detached = <<>>
    /\ call = NoCall

MapEvent ==
    /\ pc = "poll"
    /\ \E event \in MapEvents : Continue(handle_event(viewer, file_reader, event).viewer)
    /\ UNCHANGED <<file_reader, rows, search_thread, progress_rx, detached, loading_thread, call>>

NextMap == LoopStart \/ PollTimeout \/ MapEvent

SpecMap == InitMap /\ [][NextMap]_vars

(***************************************************************************)
(* The typed-ahead scenario: the terminal's event queue.  What the user    *)
(* types waits in the queue until a thread reads it: run_viewer at its     *)
(* poll, or the polling loop of a background search.  call.queue holds the *)
(* events that wait, each with a mark that tells whether it arrived while  *)
(* the polling loop was running.  The files are one of a single line,      *)
(* searched directly, and one of two lines, searched on a worker.          *)
(***************************************************************************)
AheadEvents ==
    {KeyEvent(code, <<>>, FALSE, None) : code \in {"Esc", "Enter"}}
    \cup {KeyEvent("Char", ch, FALSE, None) : ch \in {<<47>>, <<113>>}}

Typed(event, searching) == [event |-> event, searching |-> searching]

NoInput == [queue |-> <<>>]

InitAhead ==
    /\ file_reader \in {new_with_progress(NavFile(n)) : n \in {1, 2}}
    /\ rows = TerminalRows
    /\ viewer = new_viewer
    /\ pc = "top"
    /\ loading_thread = None
    /\ search_thread = None
    /\ progress_rx = <<>>
    /\ detached = <<>>
    /\ call = NoInput

\* The user presses a key: the event joins the queue.  At most MaxPending
\* events wait.
TypeAhead ==
    /\ pc \in {"poll", "search", "searching", "joining"}
    /\ Len(call.queue) < MaxPending
    /\ \E event \in AheadEvents :
          call' = [call EXCEPT !.queue = Append(@, Typed(event, pc = "searching"))]
    /\ UNCHANGED <<viewer, file_reader, rows, pc, search_thread, progress_rx, detached,
                   loading_thread>>

\* run_viewer: poll finds an event, which is read and handled.  A character
\* is typed only into a buffer shorter than MaxTerm.
ReadEvent ==
    /\ pc = "poll"
    /\ call.queue # <<>>
    /\ (viewer.in_search_mode /\ Head(call.queue).event.code = "Char")
          => Len(viewer.search_textarea) < MaxTerm
    /\ LET r == handle_event(viewer, file_reader, Head(call.queue).event)
       IN  IF r.action = "Quit" THEN viewer' = r.viewer /\ pc' = "exited"
           ELSE Continue(r.viewer)
    /\ call' = [call EXCEPT !.queue = Tail(@)]
    /\ UNCHANGED <<file_reader, rows, search_thread, progress_rx, detached, loading_thread>>

\* The polling loop of a background search: poll finds an event, which is
\* read.  Esc cancels the search; any other event is dropped.
ReadWhileSearching ==
    /\ pc = "searching"
    /\ call.queue # <<>>
    /\ LET event == Head(call.queue).event
       IN  IF event.type = "Key" /\ event.code = "Esc"
           THEN /\ Len(detached) < MaxDetached
                /\ viewer' = cancel_search(viewer)
                /\ detached' = IF search_thread.val.pc \in {"done", "panicked"} THEN detached
                               ELSE Append(detached, Detach(search_thread.val))
                /\ search_thread' = None
                /\ progress_rx' = <<>>
                /\ pc' = "poll"
           ELSE UNCHANGED <<viewer, detached, search_thread, progress_rx, pc>>
    /\ call' = [call EXCEPT !.queue = Tail(@)]
    /\ UNCHANGED <<file_reader, rows, loading_thread>>

NextAhead ==
    \/ LoopStart
    \/ PollTimeout
    \/ TypeAhead
    \/ ReadEvent
    \/ SearchEmptyTerm
    \/ SearchDirect
    \/ SearchSpawn
    \/ ReadWhileSearching
    \/ ReceiveProgress
    \/ JoinSearch
    \/ SearchWorker
    \/ DetachedWorker

SpecAhead == InitAhead /\ [][NextAhead]_vars

(***************************************************************************)
(* The highlight scenario: create_line_spans called for the only line of a *)
(* file, a line of up to MaxLineChars characters 'a' and U+00E9, after a   *)
(* term of up to MaxTermChars such characters was typed and searched.      *)
(***************************************************************************)
\* The texts of at most n characters, each 'a' or U+00E9, and at least one.
TextsUpTo(n) == {Concat(chars) : chars \in SeqsUpTo({<<97>>, <<195, 169>>}, n) \ {<<>>}}

\* The line is in start of the call to be made.
InitHighlight ==
    /\ \E line \in TextsUpTo(MaxLineChars) : \E term \in TextsUpTo(MaxTermChars) :
          /\ file_reader = new_with_progress(line)
          /\ viewer = perform_search_with_progress(
                          [new_viewer EXCEPT !.search_textarea = term], file_reader)
          /\ call = [op |-> "none", start |-> line, count |-> <<>>, result |-> <<>>]
    /\ rows = TerminalRows
    /\ pc = "highlight"
    /\ loading_thread = None
    /\ search_thread = None
    /\ progress_rx = <<>>
    /\ detached = <<>>

\* The call, for line 0: the ranges collected in count, the spans in result.
CreateLineSpans ==
    /\ pc = "highlight"
    /\ call.op = "none"
    /\ call' = [call EXCEPT !.op = "create_line_spans",
                            !.count = LineRanges(viewer, call.start, 0),
                            !.result = create_line_spans(viewer, call.start, 0)]
    /\ UNCHANGED <<viewer, file_reader, rows, pc, search_thread, progress_rx, detached,
                   loading_thread>>

NextHighlight == CreateLineSpans

SpecHighlight == InitHighlight /\ [][NextHighlight]_vars

(***************************************************************************)
(* The term scenario: a file of one line, "q", a carriage return, "q" (the *)
(* index splits lines at line feeds only); the term is typed, pasted from  *)
(* a clipboard that may hold a line feed or a carriage return, or taken    *)
(* from a selection by the Search item of the menu; the search runs        *)
(* directly.                                                               *)
(***************************************************************************)
CarriageReturnFile == <<113, 13, 113>>

TermClipboards == Clipboards \cup {Some(<<113, 13>>)}

TermEvents ==
    {KeyEvent(code, <<>>, FALSE, None) : code \in {"Esc", "Enter"}}
    \cup {KeyEvent("Char", ch, FALSE, None) : ch \in {<<47>>, <<113>>}}
    \cup {KeyEvent("Char", <<118>>, TRUE, clip) : clip \in TermClipboards}
    \cup {MouseEvent("DownLeft", LINE_NUMBER_WIDTH, row) : row \in {1, 2}}
    \cup {MouseEvent("DragLeft", LINE_NUMBER_WIDTH + col, 1) : col \in {1, 3}}
    \cup {MouseEvent("UpLeft", 0, 0), MouseEvent("DownRight", LINE_NUMBER_WIDTH, 1)}

InitTerm ==
    /\ file_reader = new_with_progress(CarriageReturnFile)
    /\ rows = TerminalRows
    /\ viewer = new_viewer
    /\ pc = "top"
    /\ loading_thread = None
    /\ search_thread = None
    /\ progress_rx = <<>>
    /\ detached = <<>>
    /\ call = NoCall

TermEvent ==
    /\ pc = "poll"
    /\ \E event \in TermEvents :
          /\ (viewer.in_search_mode /\ event.code = "Char")
                => Len(viewer.search_textarea) < MaxTerm
          /\ LET r == handle_event(viewer, file_reader, event)
             IN  IF r.action = "Quit" THEN viewer' = r.viewer /\ pc' = "exited"
                 ELSE Continue(r.viewer)
    /\ UNCHANGED <<file_reader, rows, search_thread, progress_rx, detached, loading_thread, call>>

NextTerm ==
    \/ LoopStart
    \/ PollTimeout
    \/ TermEvent
    \/ SearchEmptyTerm
    \/ SearchDirect

SpecTerm == InitTerm /\ [][NextTerm]_vars

(***************************************************************************)
(* Properties.                                                             *)
(***************************************************************************)

\* The step in which the polling loop of a background search reads Esc.
CancelStep == pc = "searching" /\ viewer'.search_cancelled

\* C1: cancelling a background search returns the controller to search
\* entry with the submitted term still in the buffer, leaves the match list
\* and the current-match index as they were before the search, hides the
\* progress overlay and clears the search request.
C1_CancelKeepsTermAndResults ==
    [][CancelStep =>
          /\ viewer'.in_search_mode
          /\ get_search_term(viewer') = get_search_term(viewer)
          /\ get_search_term(viewer') = search_thread.val.needle
          /\ get_search_term(viewer') # <<>>
          /\ viewer'.search_matches = viewer.search_matches
          /\ viewer'.current_match = viewer.current_match
          /\ ~viewer'.progress_visible
          /\ ~viewer'.search_requested
          /\ pc' = "poll"]_vars

\* A search was cancelled while an earlier search's results were installed.
C1_Cancelled ==
    /\ viewer.search_cancelled
    /\ viewer.in_search_mode
    /\ viewer.search_textarea # <<>>
    /\ viewer.search_matches # <<>>
    /\ viewer.current_match = 1
    /\ ~viewer.progress_visible
    /\ pc = "poll"

\* C2: after a cancellation the worker stops at its next progress
\* checkpoint: it scans at most one progress interval of lines after the
\* cancellation (a checkpoint comes every ProgressInterval + 1 lines).
C2_WorkerStopsAfterCancel ==
    \A i \in 1..Len(detached) :
        detached[i].line_num - detached[i].cancelled_at
            <= ProgressInterval(create_search_context(file_reader)) + 1

\* The search workers that are running: spawned and not yet returned.
RunningWorkers ==
    (IF search_thread.some /\ search_thread.val.pc # "done" THEN 1 ELSE 0) + Len(detached)

\* C3: every worker is joined on every way out of the operation that
\* spawned it, cancellation included, so that outside that operation no
\* worker is left, and at most one worker runs at any time.
C3_WorkersJoined ==
    /\ pc \notin {"searching", "joining"} => detached = <<>>
    /\ RunningWorkers <= 1

\* A step of a worker thread: the loading worker, the search worker the
\* polling loop waits for, or a detached search worker.
WorkerActs ==
    \/ loading_thread.some /\ loading_thread'.some /\ loading_thread' # loading_thread
    \/ search_thread.some /\ search_thread'.some /\ search_thread' # search_thread
    \/ detached' # detached /\ Len(detached') <= Len(detached)

\* C4: a step of a worker thread (index build or search) changes nothing of
\* the controller: not the Viewer, not the FileReader it owns, not the
\* controlling thread's position.  It only sends on the channel.
C4_WorkerLeavesController ==
    [][WorkerActs => viewer' = viewer /\ file_reader' = file_reader /\ pc' = pc]_vars

\* A background search worker has scanned a line and sent progress while the
\* Viewer shows an earlier search's results.
C4_WorkerActed ==
    /\ search_thread.some
    /\ search_thread.val.line_num > 0
    /\ search_thread.val.matches # viewer.search_matches
    /\ progress_rx # <<>>

\* C5: when the match list is not empty the current-match index is a
\* position in it.
C5_CurrentMatchInRange ==
    viewer.search_matches # <<>> =>
        0 <= viewer.current_match /\ viewer.current_match < Len(viewer.search_matches)

\* The current match is the last of two.
C5_OnLastMatch ==
    /\ Len(viewer.search_matches) = 2
    /\ viewer.current_match = 1
    /\ pc = "poll"

\* needle occurs in line as a contiguous run of bytes.
IsSubstring(needle, line) ==
    \E k \in 0..(Len(line) - Len(needle)) :
        \A j \in 1..Len(needle) : line[k + j] = needle[j]

\* The available lines of fr that contain needle.
MatchingLines(fr, needle) ==
    {n \in 0..(line_count(fr) - 1) :
        get_line(fr, n).some /\ IsSubstring(needle, get_line(fr, n).val)}

\* m lists exactly the members of S, ascending, each once.
ListsAscending(m, S) ==
    /\ Len(m) = Cardinality(S)
    /\ \A i \in 1..Len(m) : m[i] \in S
    /\ \A i \in 1..Len(m) : \A j \in 1..Len(m) : i < j => m[i] < m[j]

\* C6: a search with a non-empty needle returns exactly the available lines
\* that contain the needle, in ascending order, each once.
C6_SearchFindsContainingLines ==
    (pc = "call" /\ call.pc = "done" /\ call.needle # <<>>) =>
        /\ ListsAscending(call.matches, MatchingLines(file_reader, call.needle))
        /\ search_with_progress(file_reader, call.needle) = call.matches

\* A search returned the first and the third line and not the second.
C6_FoundTwoOfThree ==
    /\ pc = "call"
    /\ call.pc = "done"
    /\ call.needle # <<>>
    /\ call.matches = <<0, 2>>

\* C7: a search with an empty needle returns an empty list, whatever the
\* index (a search that scans nothing can return nothing else).
C7_EmptyNeedleFindsNothing ==
    (pc = "call" /\ call.pc = "done" /\ call.needle = <<>>) => call.matches = <<>>

\* C8: the controller is never in search entry and in the context menu at
\* once.
C8_OneModeAtATime == ~(viewer.in_search_mode /\ viewer.context_menu.some)

\* C9: in any state in which the host loop reads an event, the handler
\* answers q and Ctrl+C with Quit, on which the loop exits.
C9_QuitKeysQuit ==
    pc = "poll" =>
        \A event \in QuitKeys : handle_event(viewer, file_reader, event).action = "Quit"

\* The viewport tops allowed for a viewport of the given height.
TopInRange(top, viewport_height) ==
    0 <= top /\ top <= SatSub(line_count(file_reader), viewport_height)

\* C10: a navigation operation that starts with the viewport top within
\* [0, max(0, lineCount - viewportHeight)] leaves it there, for the viewport
\* height it ran with: scrolling down never passes the maximum, and the top
\* of a file shorter than the viewport stays 0.
C10_TopStaysInRange ==
    [][(pc = "poll" /\ TopInRange(viewer.current_line, viewer.viewport_height)) =>
          TopInRange(viewer'.current_line, viewer.viewport_height)]_vars

\* The viewport shows the last full page of a file longer than the viewport.
C10_AtLastPage ==
    /\ pc = "poll"
    /\ viewer.current_line > 0
    /\ viewer.current_line = line_count(file_reader) - viewer.viewport_height

\* C11: after next_match or prev_match with a non-empty match list the
\* viewport top lies in [0, max(0, lineCount - viewportHeight)], wherever the
\* target match is in the file.
C11_MatchNavClamped ==
    [][(pc = "poll" /\ viewer.search_matches # <<>>
            /\ viewer'.current_match # viewer.current_match) =>
          TopInRange(viewer'.current_line, viewer.viewport_height)]_vars

\* next_match applied count times.
RECURSIVE NextMatchTimes(_, _)
NextMatchTimes(v, count) ==
    IF count = 0 THEN v ELSE NextMatchTimes(next_match(v), count - 1)

\* C12: with n >= 1 matches next_match sets current_match to (i + 1) mod n
\* and prev_match to (i - 1 + n) mod n, n applications of next_match give
\* the original index back and prev_match undoes next_match (and the other
\* way round); with no match both change nothing.
C12_MatchNavCircular ==
    LET n == Len(viewer.search_matches)
        i == viewer.current_match
    IN  IF n >= 1
        THEN /\ next_match(viewer).current_match = (i + 1) % n
             /\ prev_match(viewer).current_match = (i - 1 + n) % n
             /\ NextMatchTimes(viewer, n).current_match = i
             /\ prev_match(next_match(viewer)).current_match = i
             /\ next_match(prev_match(viewer)).current_match = i
        ELSE next_match(viewer) = viewer /\ prev_match(viewer) = viewer

\* N was pressed on the first of at least three matches: the current match
\* is the last one.
C12_WrappedToLast ==
    /\ pc = "poll"
    /\ Len(viewer.search_matches) >= 3
    /\ viewer.current_match = Len(viewer.search_matches) - 1
    /\ viewer.current_line > 0

\* The step in which a search, direct or on a worker, completes.
SearchCompletes ==
    \/ pc = "joining" /\ pc' = "poll"
    \/ pc = "search" /\ pc' = "poll" /\ get_search_term(viewer) # <<>>

\* C13: when a search completes, the lines it found are the new match list
\* and current_match is 0; if there is a match the viewport top is
\* max(0, first match - viewport_height / 2), which puts the first match
\* inside the window drawn next; the progress overlay is hidden and the
\* search request cleared.
C13_ResultsInstalled ==
    [][SearchCompletes =>
          LET results == search_with_progress(file_reader, get_search_term(viewer))
              centred == results[1] - (viewer.viewport_height \div 2)
          IN  /\ viewer'.search_matches = results
              /\ viewer'.current_match = 0
              /\ viewer'.last_search_term = get_search_term(viewer)
              /\ results # <<>> =>
                    /\ viewer'.current_line = IF centred > 0 THEN centred ELSE 0
                    /\ viewer'.current_line <= results[1]
                    /\ results[1] < viewer'.current_line + ContentHeight(rows, FALSE)
              /\ results = <<>> => viewer'.current_line = viewer.current_line
              /\ ~viewer'.progress_visible
              /\ ~viewer'.search_requested]_vars

\* A search has completed whose first match is below the top of the file:
\* the viewport was moved to show it.
C13_FirstMatchShown ==
    /\ pc = "poll"
    /\ viewer.search_matches # <<>>
    /\ viewer.search_matches[1] >= 2
    /\ viewer.current_match = 0
    /\ viewer.current_line = viewer.search_matches[1] - 1
    /\ viewer.last_search_term # <<>>
    /\ ~viewer.progress_visible
    /\ ~viewer.search_requested

\* The positions (0-based) of the line feeds of bytes.
Separators(bytes) == {p \in 0..(Len(bytes) - 1) : At(bytes, p) = 10}

\* C14: the built index starts with offset 0, its offsets increase
\* strictly, the offsets after the first are exactly the positions just
\* after the line feeds, and the line count is the number of offsets: the
\* number of line feeds plus one, 1 for an empty file.
C14_IndexOfLineStarts ==
    pc = "built" =>
        LET bytes == file_reader.mmap
            lines == file_reader.lines
        IN  /\ lines[1] = 0
            /\ \A k \in 1..(Len(lines) - 1) : lines[k] < lines[k + 1]
            /\ {lines[k] : k \in 2..Len(lines)} = {p + 1 : p \in Separators(bytes)}
            /\ line_count(file_reader) = Len(lines)
            /\ line_count(file_reader) = Cardinality(Separators(bytes)) + 1
            /\ bytes = <<>> => line_count(file_reader) = 1
            /\ file_reader = new_with_progress(bytes)

\* The index of a file of three lines, the first of them empty, was built.
C14_ThreeLinesIndexed ==
    /\ pc = "built"
    /\ file_reader.mmap = <<10, 97, 10>>
    /\ file_reader.lines = <<0, 1, 3>>

\* The bytes of line n: from its offset up to the next line feed or the end.
RECURSIVE UpToSeparator(_, _)
UpToSeparator(bytes, p) ==
    IF p >= Len(bytes) \/ At(bytes, p) = 10 THEN <<>>
    ELSE <<At(bytes, p)>> \o UpToSeparator(bytes, p + 1)

\* C15: on a file of valid text get_line(n) gives, for every n below the
\* line count, the bytes of line n without its line feed (the empty last
\* line of a file that ends with a line feed and the one line of an empty
\* file included), and gives nothing for n at or past the line count.
C15_GetLineGivesEveryLine ==
    (pc = "built" /\ Utf8Valid(file_reader.mmap)) =>
        /\ \A n \in 0..(line_count(file_reader) - 1) :
              get_line(file_reader, n)
                  = Some(UpToSeparator(file_reader.mmap, At(file_reader.lines, n)))
        /\ get_line(file_reader, line_count(file_reader)) = None

\* C16: on a file whose lines are all valid text get_lines(start, count)
\* has min(count, lineCount - start) lines when start is below the line
\* count, and is empty when it is not.
C16_GetLinesStopsAtEndOnly ==
    (pc = "built" /\ call.op = "get_lines" /\ Utf8Valid(file_reader.mmap)) =>
        IF call.start < line_count(file_reader)
        THEN Len(call.result) = Min(call.count, line_count(file_reader) - call.start)
        ELSE call.result = <<>>

\* The available lines among lines i .. end - 1, in order.
RECURSIVE AvailableFrom(_, _, _)
AvailableFrom(fr, i, end) ==
    IF i >= end THEN <<>>
    ELSE (IF get_line(fr, i).some THEN <<get_line(fr, i).val>> ELSE <<>>)
            \o AvailableFrom(fr, i + 1, end)

\* C17: a line that is not valid text is skipped and does not end
\* get_lines: the lines of the window after it are still returned.
C17_GetLinesSkipsUnavailable ==
    (pc = "built" /\ call.op = "get_lines") =>
        call.result = AvailableFrom(file_reader, call.start, call.start + call.count)

\* The scan that reports in the progress scenario: its position in its
\* function and the total it scans (bytes of the build, lines of the search).
ScanPc == IF loading_thread.some THEN loading_thread.val.pc ELSE search_thread.val.pc

ScanTotal ==
    IF loading_thread.some THEN Len(loading_thread.val.mmap) ELSE line_count(file_reader)

\* The positions in progress_rx of the reports made inside the scan loop.
Intermediate ==
    {i \in 2..Len(progress_rx) : ~(ScanPc = "done" /\ i = Len(progress_rx))}

\* C18: an index build or a search with a progress sink reports 0.0 first
\* and 1.0 last and nothing after it, its fractions never decrease, between
\* two consecutive reports of the scan loop more than 5% of the total was
\* scanned, and there are at most 20 such reports.
C18_ProgressReports ==
    pc = "sink" =>
        /\ ScanPc # "start" => progress_rx # <<>>
        /\ progress_rx # <<>> => progress_rx[1].progress = Fraction(0, 1)
        /\ ScanPc = "done" => progress_rx[Len(progress_rx)].progress = Fraction(1, 1)
        /\ \A i \in 1..Len(progress_rx) :
              IsComplete(progress_rx[i].progress) => (ScanPc = "done" /\ i = Len(progress_rx))
        /\ \A i \in 1..(Len(progress_rx) - 1) :
              progress_rx[i].progress.num * progress_rx[i + 1].progress.den
                  <= progress_rx[i + 1].progress.num * progress_rx[i].progress.den
        /\ \A i \in Intermediate : progress_rx[i].progress.den = ScanTotal
        /\ \A i \in Intermediate : (i + 1) \in Intermediate =>
              (progress_rx[i + 1].progress.num - progress_rx[i].progress.num) * 20 > ScanTotal
        /\ Cardinality(Intermediate) <= 20

\* The index of a file of 39 bytes was built: 19 reports from the loop
\* between the first and the last.
C18_NineteenReports ==
    /\ pc = "sink"
    /\ loading_thread.some
    /\ loading_thread.val.pc = "done"
    /\ ScanTotal = 39
    /\ Len(progress_rx) = 21

\* (line, column) a comes before (line, column) b, or is b.
LexLeq(a, b) == a[1] < b[1] \/ (a[1] = b[1] /\ a[2] <= b[2])

\* C19: normalize gives the two ends of the selection, the one that comes
\* first in (line, column) order first, and gives the same for the
\* selection with anchor and cursor swapped.
C19_NormalizeOrders ==
    viewer.selection.some =>
        LET sel == viewer.selection.val
            swapped == [start_line |-> sel.end_line, start_col |-> sel.end_col,
                        end_line |-> sel.start_line, end_col |-> sel.start_col]
            n == normalize(sel)
        IN  /\ LexLeq(<<n[1], n[2]>>, <<n[3], n[4]>>)
            /\ {<<n[1], n[2]>>, <<n[3], n[4]>>}
                  = {<<sel.start_line, sel.start_col>>, <<sel.end_line, sel.end_col>>}
            /\ normalize(swapped) = n

\* The selection was dragged from (2, 5) back to (0, 1): normalize gives
\* start (0, 1), end (2, 5).
C19_DraggedBackwards ==
    /\ viewer.selection.some
    /\ viewer.selection.val = [start_line |-> 2, start_col |-> 5, end_line |-> 0, end_col |-> 1]
    /\ normalize(viewer.selection.val) = <<0, 1, 2, 5>>

\* C20: the context menu opens only when a selection with anchor # cursor
\* exists at that moment.
C20_MenuNeedsSelection ==
    [][(~viewer.context_menu.some /\ viewer'.context_menu.some) =>
          (viewer.selection.some /\ ~is_empty(viewer.selection.val))]_vars

\* C21: whenever the host loop reads a left-mouse-up, in whatever mode, the
\* selection after the event is absent or has anchor # cursor.
C21_NoEmptySelectionAfterRelease ==
    pc = "poll" =>
        LET v == handle_event(viewer, file_reader, MouseEvent("UpLeft", 0, 0)).viewer
        IN  ~v.selection.some \/ ~is_empty(v.selection.val)

\* The bytes of line n of the file, without its line feed.
LineText(fr, n) == UpToSeparator(fr.mmap, At(fr.lines, n))

\* The characters of text at the 0-based positions from .. to - 1 that the
\* text has.
RECURSIVE CharsBetween(_, _, _)
CharsBetween(chars, from, to) ==
    IF from >= to \/ from >= Len(chars) THEN <<>>
    ELSE At(chars, from) \o CharsBetween(chars, from + 1, to)

\* The whole lines from line n to line last, each followed by a line feed.
RECURSIVE WholeLines(_, _, _)
WholeLines(fr, n, last) ==
    IF n > last THEN <<>> ELSE LineText(fr, n) \o <<10>> \o WholeLines(fr, n + 1, last)

\* The text between (start_line, start_col) and (end_line, end_col), the
\* first of them not after the second.
SelectedText(fr, start_line, start_col, end_line, end_col) ==
    IF start_line = end_line
    THEN CharsBetween(Chars(LineText(fr, start_line)), start_col, end_col)
    ELSE LET first == Chars(LineText(fr, start_line))
         IN  CharsBetween(first, start_col, Len(first)) \o <<10>>
                \o WholeLines(fr, start_line + 1, end_line - 1)
                \o CharsBetween(Chars(LineText(fr, end_line)), 0, end_col)

RECURSIVE SpanText(_)
SpanText(spans) ==
    IF spans = <<>> THEN <<>> ELSE Head(spans).content \o SpanText(Tail(spans))

\* C23: for every line and every list of ranges (empty, out of bounds,
\* nested, overlapping, repeated) the segments start at column 0, each starts
\* where the one before it ends and is not empty, the last ends at the
\* line's length in characters, the spans hold the characters of their
\* segments, and the spans' contents, one after the other, are the line.
C23_SegmentsCoverLine ==
    (pc = "spans" /\ call.op = "split_line_into_spans") =>
        LET line == call.start
            ranges == call.count
            spans == call.result
            segs == IF ranges = <<>> THEN <<(<<0, char_len(line), None>>)>>
                    ELSE segments(char_len(line), ranges)
        IN  /\ SpanText(spans) = line
            /\ \A k \in 1..Len(spans) : Utf8Valid(spans[k].content)
            /\ char_len(line) > 0 =>
                  /\ segs # <<>>
                  /\ segs[1][1] = 0
                  /\ segs[Len(segs)][2] = char_len(line)
                  /\ Len(spans) = Len(segs)
            /\ \A k \in 1..(Len(segs) - 1) : segs[k][2] = segs[k + 1][1]
            /\ ranges # <<>> =>
                  /\ \A k \in 1..Len(segs) : segs[k][1] < segs[k][2]
                  /\ \A k \in 1..Len(segs) :
                        /\ char_len(spans[k].content) = segs[k][2] - segs[k][1]
                        /\ spans[k].style = segs[k][3]

\* A line of three characters was split under two overlapping ranges, the
\* second of them past the end of the line: three spans.
C23_OverlappingRangesSplit ==
    /\ pc = "spans"
    /\ call.start = LineOfChars(3)
    /\ call.count = <<(<<0, 2, "selection">>), (<<1, 4, "match">>)>>
    /\ call.result = <<Span(<<97>>, Some("selection")), Span(<<195, 169>>, Some("match")),
                       Span(<<97>>, Some("match"))>>

\* The style of the span that holds the character at position p.
RECURSIVE StyleAt(_, _)
StyleAt(spans, p) ==
    IF p < char_len(Head(spans).content) THEN Head(spans).style
    ELSE StyleAt(Tail(spans), p - char_len(Head(spans).content))

\* The positions in the list of the ranges that cover position p.
Covering(ranges, p) == {i \in 1..Len(ranges) : ranges[i][1] <= p /\ p < ranges[i][2]}

\* C24: every character covered by one or more of the ranges is given the
\* style of the covering range that comes last in the list, wherever the
\* ranges start.
C24_LatestRangeWins ==
    (pc = "spans" /\ call.op = "split_line_into_spans") =>
        \A p \in 0..(char_len(call.start) - 1) :
            LET covering == Covering(call.count, p)
                latest == CHOOSE i \in covering : \A j \in covering : j <= i
            IN  covering # {} => StyleAt(call.result, p) = Some(call.count[latest][3])

\* The screen position (col, row) is mapped to no text position.
MappingFails(col, row) ==
    \/ row = 0
    \/ col < LINE_NUMBER_WIDTH
    \/ row - 1 >= viewer.viewport_height
    \/ viewer.current_line + (row - 1) >= line_count(file_reader)

\* C25: a screen position is mapped to line top + (row - 1) and column
\* col - margin width, and to nothing exactly when the row is 0, the column
\* is in the margin, the row is below the viewport or the line is past the
\* last one; a left press at a position mapped to nothing leaves the
\* selection, and whether one is being made, as they were.
C25_ScreenToTextMapping ==
    pc = "poll" =>
        \A col \in MapCols : \A row \in 0..MapMaxRow :
            LET at == screen_to_text_coords(viewer, file_reader, col, row)
                pressed == handle_event(viewer, file_reader,
                                        MouseEvent("DownLeft", col, row)).viewer
            IN  /\ at.some <=> ~MappingFails(col, row)
                /\ at.some =>
                      at.val = <<viewer.current_line + (row - 1), col - LINE_NUMBER_WIDTH>>
                /\ MappingFails(col, row) =>
                      /\ pressed.selection = viewer.selection
                      /\ pressed.selecting = viewer.selecting

\* A selection was made on a file shorter than the viewport: the row after
\* the last line of the file is inside the viewport and a press there is
\* mapped to nothing.
C25_PressPastLastLine ==
    /\ pc = "poll"
    /\ viewer.selection.some
    /\ ~is_empty(viewer.selection.val)
    /\ ~viewer.selecting
    /\ line_count(file_reader) < viewer.viewport_height
    /\ ~screen_to_text_coords(viewer, file_reader, LINE_NUMBER_WIDTH,
                              line_count(file_reader) + 1).some
    /\ screen_to_text_coords(viewer, file_reader, LINE_NUMBER_WIDTH + 1,
                             line_count(file_reader)).some

\* The controller is in normal mode: not in search entry, no menu open.
NormalMode(v) == ~v.in_search_mode /\ ~v.context_menu.some

\* C26: Esc read in normal mode empties the search term, the match list and
\* the last searched term and sets the current-match index to 0; the
\* selection, the viewport top and the mode stay as they were, and the loop
\* goes on.
C26_EscClearsSearchOnly ==
    (pc = "poll" /\ NormalMode(viewer)) =>
        LET r == handle_event(viewer, file_reader, KeyEvent("Esc", <<>>, FALSE, None))
            v == r.viewer
        IN  /\ get_search_term(v) = <<>>
            /\ v.search_matches = <<>>
            /\ v.current_match = 0
            /\ v.last_search_term = <<>>
            /\ ~v.search_requested
            /\ v.selection = viewer.selection
            /\ v.selecting = viewer.selecting
            /\ v.current_line = viewer.current_line
            /\ NormalMode(v)
            /\ r.action = "None"

\* Esc can be pressed in normal mode on the second of several matches, with
\* the viewport scrolled down and text selected.
C26_EscWithMatchesAndSelection ==
    /\ pc = "poll"
    /\ NormalMode(viewer)
    /\ Len(viewer.search_matches) >= 2
    /\ viewer.current_match = 1
    /\ viewer.current_line > 0
    /\ viewer.search_textarea # <<>>
    /\ viewer.selection.some
    /\ ~is_empty(viewer.selection.val)

\* Some line of the file is drawn with an occurrence of the search term
\* highlighted.
HighlightsMatches(v) ==
    \E n \in 0..(line_count(file_reader) - 1) :
        /\ get_line(file_reader, n).some
        /\ LET spans == create_line_spans(v, get_line(file_reader, n).val, n)
           IN  \E k \in 1..Len(spans) :
                  spans[k].style \in {Some("current_match"), Some("other_match")}

\* C27: Esc read in search entry returns to normal mode and requests no
\* search; the match list and the current-match index are left as they are,
\* and a typed text that is discarded is not the search term afterwards and
\* highlights nothing.
C27_EscDiscardsBuffer ==
    (pc = "poll" /\ viewer.in_search_mode) =>
        LET v == handle_event(viewer, file_reader, KeyEvent("Esc", <<>>, FALSE, None)).viewer
            typed == viewer.search_textarea
        IN  /\ ~v.in_search_mode
            /\ ~v.search_requested
            /\ v.search_matches = viewer.search_matches
            /\ v.current_match = viewer.current_match
            /\ typed # <<>> => (get_search_term(v) # typed /\ ~HighlightsMatches(v))

\* The left button pressed at (col, row), and Esc.
LeftClick(col, row) == MouseEvent("DownLeft", col, row)

EscKey == KeyEvent("Esc", <<>>, FALSE, None)

\* The Viewer with the menu closed and nothing else changed.
MenuClosed(v) == [v EXCEPT !.context_menu = None]

\* The text of the selection, if there is a selection with text.
SelectionText(v) ==
    IF v.selection.some THEN get_text(v.selection.val, file_reader) ELSE None

\* C28: with the menu open, a left click on the first row of the menu as it
\* is drawn puts the selection's text on the clipboard and changes nothing
\* in the Viewer but the menu; a click on its second row makes the
\* selection's text the search term and requests a search if the text has no
\* line feed, and does nothing if it has; both close the menu; a click
\* beside the menu, and Esc, close the menu and change nothing else.
C28_MenuClickDispatch ==
    (pc = "poll" /\ viewer.context_menu.some) =>
        LET area == menu_area(viewer.context_menu.val, TerminalCols, rows)
            text == SelectionText(viewer)
            copy == handle_event(viewer, file_reader, LeftClick(area.x, area.y)).viewer
            search == handle_event(viewer, file_reader, LeftClick(area.x, area.y + 1)).viewer
            beside == handle_event(viewer, file_reader, LeftClick(area.x - 1, area.y)).viewer
            esc == handle_event(viewer, file_reader, EscKey).viewer
        IN  /\ copy = MenuClosed(viewer)
            /\ \A clipboard \in Clipboards :
                  handle_menu_click_clipboard(viewer, file_reader, area.y, clipboard, TRUE)
                      = IF text.some THEN text ELSE clipboard
            /\ search = IF text.some /\ ~(\E i \in 1..Len(text.val) : text.val[i] = 10)
                        THEN [MenuClosed(viewer) EXCEPT !.search_textarea = text.val,
                                                        !.search_requested = TRUE,
                                                        !.search_cancelled = FALSE]
                        ELSE MenuClosed(viewer)
            /\ beside = MenuClosed(viewer)
            /\ esc = MenuClosed(viewer)

\* The step in which the join of a panicked worker returns.
FailureStep == pc = "joining" /\ search_thread.val.pc = "panicked"

\* A step of a background search that does not end in the installation of
\* its results: the spawn, the polling loop, the join of a panicked worker.
UnfinishedSearchStep ==
    \/ pc = "search" /\ pc' = "searching"
    \/ pc = "searching"
    \/ FailureStep
    \/ pc = "failed"

\* C29: from the request of a background search to the return of a search
\* whose worker panicked, the match list, the current-match index, the
\* viewport top and the selection are never changed; when the join fails the
\* progress overlay is hidden, the request cleared and the error returned to
\* the host loop, which goes on to poll for input with the Viewer as it is.
C29_WorkerFailureConfined ==
    [][UnfinishedSearchStep =>
          /\ viewer'.search_matches = viewer.search_matches
          /\ viewer'.current_match = viewer.current_match
          /\ viewer'.current_line = viewer.current_line
          /\ viewer'.selection = viewer.selection
          /\ viewer'.last_search_term = viewer.last_search_term
          /\ FailureStep =>
                /\ ~viewer'.progress_visible
                /\ ~viewer'.search_requested
                /\ search_thread' = None
                /\ pc' = "failed"
          /\ pc = "failed" => (pc' = "poll" /\ viewer' = viewer)]_vars

\* A search has failed while the second match of an earlier search was
\* shown, the viewport scrolled and text selected; the overlay is hidden and
\* the request cleared.
C29_FailedWithResultsKept ==
    /\ pc = "failed"
    /\ Len(viewer.search_matches) >= 2
    /\ viewer.current_match = 2
    /\ viewer.current_line > 0
    /\ viewer.selection.some
    /\ ~is_empty(viewer.selection.val)
    /\ viewer.search_textarea # viewer.last_search_term
    /\ ~viewer.progress_visible
    /\ ~viewer.search_requested

\* C30: a search that is requested is resolved: the controlling thread
\* leaves perform_search_with_ui_progress, by the last progress message, by
\* the disconnection of the channel or by a cancellation, with the request
\* cleared and the progress overlay hidden.
C30_SearchRequestResolved ==
    viewer.search_requested ~>
        (pc \in {"poll", "failed"} /\ ~viewer.search_requested /\ ~viewer.progress_visible)

\* The polling loop was left on the disconnection of the channel of a worker
\* that panicked before its first report, and the search has returned.
C30_ResolvedAfterDisconnect ==
    /\ pc = "failed"
    /\ search_thread = None
    /\ viewer.search_textarea # <<>>
    /\ viewer.last_search_term = <<>>
    /\ ~viewer.search_requested
    /\ ~viewer.progress_visible

\* The step in which run_viewer reads Enter during search entry.
EnterStep ==
    /\ pc = "poll"
    /\ viewer.in_search_mode
    /\ call.queue # <<>>
    /\ Head(call.queue).event.code = "Enter"
    /\ call'.queue = Tail(call.queue)

\* The step in which run_viewer reads an event and hands it to the event
\* handler.
DispatchStep == pc = "poll" /\ call.queue # <<>> /\ call'.queue = Tail(call.queue)

\* The search is run with term as its term: on a worker, or at once with
\* its results installed, or, term being empty, by emptying the match list.
SearchRunsWith(term) ==
    IF term = <<>>
    THEN pc' = "poll" /\ viewer'.search_matches = <<>> /\ ~viewer'.search_requested
    ELSE IF line_count(file_reader) > BackgroundThreshold
    THEN pc' = "searching" /\ search_thread' = Some(spawn_search(term))
    ELSE /\ pc' = "poll"
         /\ viewer'.last_search_term = term
         /\ viewer'.search_matches = search_with_progress(file_reader, term)
         /\ ~viewer'.search_requested

\* C31: Enter read in search entry marks a search requested, returns to
\* normal mode and keeps the buffer; the next thing the host loop does is to
\* run the search with the buffer as it was at Enter as the term, whatever
\* waits in the event queue: until then the Viewer is not changed and no
\* event is handed to the event handler, and one is handed to it only when
\* no search is requested.
C31_EnterRunsSearchFirst ==
    [][/\ EnterStep =>
            /\ pc' = "search"
            /\ viewer'.search_requested
            /\ ~viewer'.in_search_mode
            /\ get_search_term(viewer') = get_search_term(viewer)
       /\ pc = "search" =>
            /\ Len(call'.queue) >= Len(call.queue)
            /\ pc' = "search" => viewer' = viewer
            /\ pc' # "search" => SearchRunsWith(get_search_term(viewer))
       /\ DispatchStep => ~viewer.search_requested]_vars

\* Enter was read with another key waiting in the queue, and the search of
\* the typed term has been started on a worker with that key still waiting.
C31_SearchStartedBeforeNextKey ==
    /\ pc = "searching"
    /\ search_thread.some
    /\ search_thread.val.needle = <<113>>
    /\ search_thread.val.pc = "start"
    /\ call.queue # <<>>
    /\ ~Head(call.queue).searching
    /\ get_search_term(viewer) = <<113>>

\* The step in which the polling loop of a background search reads an event
\* other than the Esc key.
DropStep ==
    /\ pc = "searching"
    /\ call.queue # <<>>
    /\ call'.queue = Tail(call.queue)
    /\ ~(Head(call.queue).event.type = "Key" /\ Head(call.queue).event.code = "Esc")

\* C38: an event other than the Esc key that arrives while the polling loop
\* of a background search runs is read by that loop, which changes nothing
\* in the Viewer and stays in the loop; it is never handed to the event
\* handler once the search has finished.
C38_InputIgnoredDuringSearch ==
    [][/\ DropStep => (viewer' = viewer /\ pc' = "searching")
       /\ DispatchStep =>
            \/ ~Head(call.queue).searching
            \/ Head(call.queue).event.code = "Esc"]_vars

\* The ranges first and second are adjacent and of different styles: the
\* second starts where the first ends and neither is empty.
Adjacent(first, second) ==
    /\ first[1] < first[2]
    /\ first[2] = second[1]
    /\ second[1] < second[2]
    /\ first[3] # second[3]

\* C32: for two adjacent ranges [a, b) and [b, c) of different styles,
\* given in either order, every character of [a, b) has the first style and
\* every character of [b, c) the second; when both lie within the line the
\* segments are exactly the unstyled stretch before a if there is one,
\* [a, b) in the first style, [b, c) in the second, and the unstyled rest
\* of the line if there is one.
C32_AdjacentRangesMeet ==
    (pc = "spans" /\ call.op = "split_line_into_spans" /\ Len(call.count) = 2) =>
        \A i, j \in 1..2 :
            (i # j /\ Adjacent(call.count[i], call.count[j])) =>
                LET first == call.count[i]
                    second == call.count[j]
                    n == char_len(call.start)
                IN  /\ \A p \in 0..(n - 1) :
                          /\ (first[1] <= p /\ p < first[2]) =>
                                StyleAt(call.result, p) = Some(first[3])
                          /\ (second[1] <= p /\ p < second[2]) =>
                                StyleAt(call.result, p) = Some(second[3])
                    /\ second[2] <= n =>
                          segments(n, call.count) =
                              (IF first[1] > 0 THEN <<(<<0, first[1], None>>)>> ELSE <<>>)
                              \o <<(<<first[1], first[2], Some(first[3])>>),
                                   (<<second[1], second[2], Some(second[3])>>)>>
                              \o (IF second[2] < n THEN <<(<<second[2], n, None>>)>> ELSE <<>>)

\* A line of three characters was split under the ranges [1, 3) and [0, 1),
\* given in that order: two spans, one in each style.
C32_TwoAdjacentSpans ==
    /\ pc = "spans"
    /\ call.start = LineOfChars(3)
    /\ call.count = <<(<<1, 3, "match">>), (<<0, 1, "selection">>)>>
    /\ call.result = <<Span(<<97>>, Some("selection")), Span(<<195, 169, 97>>, Some("match"))>>

\* C37: a character of the line is unstyled in the output exactly when no
\* range of the list covers it, also when two overlapping ranges carry the
\* same style.
C37_UnstyledIffUncovered ==
    (pc = "spans" /\ call.op = "split_line_into_spans") =>
        \A p \in 0..(char_len(call.start) - 1) :
            StyleAt(call.result, p) = None <=> Covering(call.count, p) = {}

\* The character positions at which the characters of term occur in the
\* characters of line from position c on, each found after the end of the
\* one before.
RECURSIVE OccurrencesFrom(_, _, _)
OccurrencesFrom(line_chars, term_chars, c) ==
    IF c + Len(term_chars) > Len(line_chars) THEN <<>>
    ELSE IF Slice(line_chars, c, c + Len(term_chars)) = term_chars
        THEN <<c>> \o OccurrencesFrom(line_chars, term_chars, c + Len(term_chars))
    ELSE OccurrencesFrom(line_chars, term_chars, c + 1)

\* C33: the ranges create_line_spans collects for the occurrences of the
\* term are [c, c + charLength(term)) for the character position c of each
\* occurrence, one after the other, and the characters drawn in a match
\* style are exactly the characters of the occurrences.
C33_MatchRangesInCharacters ==
    (pc = "highlight" /\ call.op = "create_line_spans") =>
        LET term_chars == Chars(get_search_term(viewer))
            found == OccurrencesFrom(Chars(call.start), term_chars, 0)
        IN  /\ Len(call.count) = Len(found)
            /\ \A i \in 1..Len(found) :
                  /\ call.count[i][1] = found[i]
                  /\ call.count[i][2] = found[i] + Len(term_chars)
            /\ \A p \in 0..(char_len(call.start) - 1) :
                  StyleAt(call.result, p) \in {Some("current_match"), Some("other_match")}
                      <=> \E i \in 1..Len(found) : found[i] <= p /\ p < found[i] + Len(term_chars)

\* C34: whenever the match list is not empty, every line it lists is a line
\* of the file that contains the current search term, the term that is
\* highlighted and shown as the active search.
C34_MatchesContainTerm ==
    \A k \in 1..Len(viewer.search_matches) :
        LET line == get_line(file_reader, viewer.search_matches[k])
        IN  line.some /\ IsSubstring(get_search_term(viewer), line.val)

\* C35: the search term holds no line feed and no carriage return, however
\* it was entered.
C35_TermHasNoLineSeparator ==
    /\ ~HasLineBreak(get_search_term(viewer))
    /\ ~HasLineBreak(viewer.last_search_term)

\* C36: while the context menu is open there is a selection, and no step
\* taken while the menu is open changes the selection.
C36_MenuOpenHasSelection ==
    /\ [](viewer.context_menu.some => viewer.selection.some)
    /\ [][viewer.context_menu.some => viewer'.selection = viewer.selection]_vars

\* The menu is open over a selection with text while the controller is in
\* search entry, where keys go to the search handler and the mouse to the
\* menu.
C36_MenuOpenInSearchEntry ==
    /\ pc = "poll"
    /\ viewer.context_menu.some
    /\ viewer.in_search_mode
    /\ viewer.selection.some
    /\ ~is_empty(viewer.selection.val)
====
